---------------------------- MODULE Spec2Model ----------------------------
(***************************************************************************)
(* Verification model of kalepail/zkp-pong: the Q16.16 kinematic engine,   *)
(* the log producers (runGame, runP2PGame), the log validator              *)
(* (validateLog) and the relay (GameRoom durable object).                  *)
(*                                                                         *)
(* Numbers.  The source computes with BigInt; TLC's integers are 32-bit,   *)
(* so products and shifted dividends are computed limb-wise (iMul, iDiv)   *)
(* and give exactly the BigInt results for every value the bounded         *)
(* matches reach.  Unsigned 32-bit words of the aim hash are kept as       *)
(* pairs <<hi, lo>> of 16-bit limbs.                                       *)
(***************************************************************************)
EXTENDS Integers, Sequences, FiniteSets, TLC

(***************************************************************************)
(* src/pong/constants.ts                                                   *)
(***************************************************************************)
WIDTH == 800
HEIGHT == 480
PADDLE_HEIGHT == 80
PADDLE_WIDTH == 10
PADDLE_MARGIN == 16
BALL_RADIUS == 6
PADDLE_MAX_SPEED == 200
SERVE_SPEED == 500
SPEED_INCREMENT == 50
MAX_BOUNCE_ANGLE_DEG == 60
POINTS_TO_WIN == 3
ANGLE_RANGE == MAX_BOUNCE_ANGLE_DEG * 2 + 1
SERVE_ANGLE_MULTIPLIER == 37
INITIAL_SERVE_DIRECTION == 1

(***************************************************************************)
(* src/pong/fixed.ts (the Q16.16 version)                                  *)
(***************************************************************************)
FRAC_BITS == 16
ONE == 2 ^ FRAC_BITS

\* A const of the source: e is evaluated once, and F is taken at its value.
Bind(e, F(_)) == CHOOSE r \in {F(v) : v \in {e}} : TRUE

iAbs(a) == IF a < 0 THEN -a ELSE a
iMin(a, b) == IF a < b THEN a ELSE b
iMax(a, b) == IF a > b THEN a ELSE b
iAdd(a, b) == a + b
iSub(a, b) == a - b

\* BigInt x >> n: arithmetic shift, i.e. floor division by 2^n.
Shr(x, n) == x \div (2 ^ n)

\* BigInt a / b and a % b for b > 0: truncation toward zero, remainder with
\* the sign of the dividend.
TruncDiv(a, b) == IF a >= 0 THEN a \div b ELSE -((-a) \div b)
TruncRem(a, b) == a - b * TruncDiv(a, b)

\* toFixed(n) for the integer literals the engine passes: n * 2^16.
toFixed(n) == n * ONE
toFixedInt(n) == n * ONE

\* iMul(a, b) = (a * b) >> 16, the product taken limb-wise:
\* a = a1*2^16 + a0, b = b1*2^16 + b0, a0 = a01*2^8 + a00.
iMul(a, b) ==
  LET a1 == a \div ONE
      a0 == a % ONE
      b1 == b \div ONE
      b0 == b % ONE
      a01 == a0 \div 256
      a00 == a0 % 256
  IN  a1 * b + a0 * b1 + ((a01 * b0 + ((a00 * b0) \div 256)) \div 256)

\* floor((r * 2^n + ...) / d) by binary long division, r < d.
RECURSIVE LongDiv(_, _, _, _)
LongDiv(r, q, d, n) ==
  IF n = 0 THEN q
  ELSE Bind(IF 2 * r >= d THEN <<2 * r - d, 2 * q + 1>> ELSE <<2 * r, 2 * q>>,
            LAMBDA s : LongDiv(s[1], s[2], d, n - 1))

\* iDiv(a, b) = (a << 16) / b, truncated toward zero; b # 0.
iDiv(a, b) ==
  LET A == iAbs(a)
      B == iAbs(b)
  IN  Bind(LongDiv(A % B, A \div B, B, FRAC_BITS), LAMBDA q :
        IF (a < 0) # (b < 0) THEN -q ELSE q)

\* reflect1D without the fold of the upper half of the period.
reflect1DUnfolded(y0, vy, dt, minY, maxY) ==
  LET span == iSub(maxY, minY)
      period == 2 * span
  IN  IF span <= 0 THEN y0
      ELSE Bind(iSub(iAdd(y0, iMul(vy, dt)), minY), LAMBDA y1 :
           Bind(TruncRem(TruncRem(y1, period) + period, period), LAMBDA y :
             iAdd(minY, y)))

reflect1D(y0, vy, dt, minY, maxY) ==
  LET span == iSub(maxY, minY)
      period == 2 * span
  IN  IF span <= 0 THEN y0
      ELSE Bind(iSub(iAdd(y0, iMul(vy, dt)), minY), LAMBDA y1 :
           Bind(TruncRem(TruncRem(y1, period) + period, period), LAMBDA y :
             IF y > span THEN iSub(maxY, iSub(y, span))
             ELSE iAdd(minY, y)))

PI_Q16 == 205887

degToRadFixed(d) ==
  LET degFixed == toFixedInt(d)
  IN  Bind(iMul(degFixed, PI_Q16), LAMBDA num : iDiv(num, toFixedInt(180)))

ITER == 8
atanTable == <<51472, 30386, 16055, 8150, 4091, 2047, 1024, 512>>
K == 39797

RECURSIVE CordicIter(_, _, _, _)
CordicIter(x, y, z, i) ==
  IF i = ITER THEN [sin |-> y, cos |-> x]
  ELSE LET di == IF z >= 0 THEN 1 ELSE -1
           xShift == Shr(x, i)
           yShift == Shr(y, i)
       IN  Bind(<<iSub(x, di * yShift), iAdd(y, di * xShift),
                  iSub(z, di * atanTable[i + 1])>>,
                LAMBDA n : CordicIter(n[1], n[2], n[3], i + 1))

cordicSinCos(angle) == CordicIter(K, 0, angle, 0)

clampPaddleY(y, half, height) == iMax(half, iMin(iSub(height, half), y))

(***************************************************************************)
(* 32-bit words of JavaScript's number arithmetic, as <<hi, lo>> limbs.    *)
(***************************************************************************)
LIMB == 65536

\* The word of a non-negative integer below 2^31.
Word(x) == <<x \div LIMB, x % LIMB>>

\* ToInt32 of a word: the signed value of its bit pattern.
WordToInt32(w) ==
  IF w[1] >= 32768 THEN -((65535 - w[1]) * LIMB + (65535 - w[2])) - 1
  ELSE w[1] * LIMB + w[2]

\* x * y for 16-bit x, y as <<hi, lo>>, y taken byte-wise.
Mul16(x, y) ==
  LET t0 == x * (y % 256)
      t1 == x * (y \div 256)
      s == t0 + (t1 % 256) * 256
  IN  <<(t1 \div 256) + (s \div LIMB), s % LIMB>>

\* The exact 64-bit product of two words, as limbs <<l3, l2, l1, l0>>.
Mul32(a, b) ==
  LET p00 == Mul16(a[2], b[2])
      p01 == Mul16(a[2], b[1])
      p10 == Mul16(a[1], b[2])
      p11 == Mul16(a[1], b[1])
      s1 == p00[1] + p01[2] + p10[2]
      s2 == p01[1] + p10[1] + p11[2] + (s1 \div LIMB)
  IN  <<p11[1] + (s2 \div LIMB), s2 % LIMB, s1 % LIMB, p00[2]>>

AddWord(a, b) ==
  LET lo == a[2] + b[2]
  IN  <<(a[1] + b[1] + (lo \div LIMB)) % LIMB, lo % LIMB>>

\* Two's complement negation of a word.
NegWord(w) ==
  IF w[2] = 0 THEN <<(LIMB - w[1]) % LIMB, 0>>
  ELSE <<65535 - w[1], LIMB - w[2]>>

RECURSIVE BitLen(_)
BitLen(x) == IF x = 0 THEN 0 ELSE 1 + BitLen(x \div 2)

RECURSIVE Xor(_, _, _)
Xor(a, b, n) ==
  IF n = 0 THEN 0
  ELSE ((a + b) % 2) + 2 * Xor(a \div 2, b \div 2, n - 1)

XorWord(a, b) == <<Xor(a[1], b[1], 16), Xor(a[2], b[2], 16)>>

\* w >>> n for 0 < n <= 16.
ShrWord(w, n) ==
  <<w[1] \div (2 ^ n), ((w[1] % (2 ^ n)) * (2 ^ (16 - n)) + (w[2] \div (2 ^ n))) % LIMB>>

\* The low word of an IEEE double holding the product p (64-bit limbs):
\* a double keeps 53 significant bits, rounding to nearest, ties to even.
RoundDoubleLow(p) ==
  LET n == IF p[1] # 0 THEN 48 + BitLen(p[1])
           ELSE IF p[2] # 0 THEN 32 + BitLen(p[2]) ELSE 0
      k == IF n > 53 THEN n - 53 ELSE 0
      rem == p[4] % (2 ^ k)
      bitk == (p[4] \div (2 ^ k)) % 2
      up == k > 0 /\ (2 * rem > 2 ^ k \/ (2 * rem = 2 ^ k /\ bitk = 1))
      l0 == p[4] - rem + (IF up THEN 2 ^ k ELSE 0)
  IN  <<(p[3] + (l0 \div LIMB)) % LIMB, l0 % LIMB>>

\* (x * c) | 0 for an int32 x and a positive constant word c, the product
\* being a double.
MulInt32(x, c) ==
  LET neg == x < 0
      mag == IF neg THEN
               (IF x = -2147483647 - 1 THEN <<32768, 0>> ELSE Word(-x))
             ELSE Word(x)
  IN  Bind(Mul32(mag, c), LAMBDA p :
      Bind(RoundDoubleLow(p), LAMBDA r : IF neg THEN NegWord(r) ELSE r))

(***************************************************************************)
(* Fixed constants of the engine (runGame, runP2PGame, validateLog)        *)
(***************************************************************************)
widthI == toFixed(WIDTH)
heightI == toFixed(HEIGHT)
ballRadiusI == toFixed(BALL_RADIUS)
paddleHeightI == toFixed(PADDLE_HEIGHT)
paddleWidthI == toFixed(PADDLE_WIDTH)
paddleMarginI == toFixed(PADDLE_MARGIN)
paddleMaxSpeedI == toFixed(PADDLE_MAX_SPEED)
serveSpeedI == toFixed(SERVE_SPEED)
speedIncrementI == toFixed(SPEED_INCREMENT)
maxBounceAngleI == degToRadFixed(MAX_BOUNCE_ANGLE_DEG)
yMinI == ballRadiusI
yMaxI == iSub(heightI, ballRadiusI)
leftFaceI == iAdd(paddleMarginI, paddleWidthI)
rightFaceI == iSub(widthI, iAdd(paddleMarginI, paddleWidthI))
centerYI == iDiv(heightI, toFixed(2))
halfI == iDiv(paddleHeightI, toFixed(2))

(***************************************************************************)
(* The kinematic engine: the helpers runGame, runP2PGame and validateLog   *)
(* each define (the three copies are the same text).  A FixState is        *)
(* [t0, x, y, vx, vy, speed, leftY, rightY, dir]; a PaddleMotion is        *)
(* [y0, t0, target].  Times are Q16.16 values: the source's round trip     *)
(* toFixed(fromFixed(t)) is exact on them.                                 *)
(***************************************************************************)

serveAngleRawUnshifted(volleyCount, gameId) ==
  LET entropyMix == volleyCount + gameId
  IN  Bind(WordToInt32(MulInt32(entropyMix, Word(SERVE_ANGLE_MULTIPLIER))),
           LAMBDA mixed :
             TruncRem(TruncRem(mixed, ANGLE_RANGE) + ANGLE_RANGE, ANGLE_RANGE))

\* angleRaw of serveFixed: ((((k + gameId) | 0) * 37 | 0) % 121 + 121) % 121 - 60
serveAngleRaw(volleyCount, gameId) ==
  LET entropyMix == volleyCount + gameId
  IN  Bind(WordToInt32(MulInt32(entropyMix, Word(SERVE_ANGLE_MULTIPLIER))),
           LAMBDA mixed :
             TruncRem(TruncRem(mixed, ANGLE_RANGE) + ANGLE_RANGE, ANGLE_RANGE)
               - MAX_BOUNCE_ANGLE_DEG)

serveFixed(receiverDir, tStartI, volleyCount, gameId) ==
  Bind(degToRadFixed(serveAngleRaw(volleyCount, gameId)), LAMBDA angleI :
  Bind(cordicSinCos(angleI), LAMBDA sc :
      [t0 |-> tStartI,
       x |-> iDiv(widthI, toFixed(2)),
       y |-> iDiv(heightI, toFixed(2)),
       vx |-> iMul(serveSpeedI, iMul(sc.cos, toFixed(receiverDir))),
       vy |-> iMul(serveSpeedI, sc.sin),
       speed |-> serveSpeedI,
       leftY |-> iDiv(heightI, toFixed(2)),
       rightY |-> iDiv(heightI, toFixed(2)),
       dir |-> receiverDir]))

\* timeToPaddleFixed; the caller handles vx = 0 (the source throws).
timeToPaddleFixed(fs) ==
  LET targetX == IF fs.dir < 0 THEN iAdd(leftFaceI, ballRadiusI)
                 ELSE iSub(rightFaceI, ballRadiusI)
  IN  Bind(iSub(targetX, fs.x), LAMBDA dx : iDiv(dx, fs.vx))

ballYatFixed(fs, tAbsI) ==
  Bind(iSub(tAbsI, fs.t0), LAMBDA dt : reflect1D(fs.y, fs.vy, dt, yMinI, yMaxI))

newSpeedKept(speed) == speed

\* const newSpeed = iAdd(fs.speed, speedIncrementI)
newSpeed(speed) == iAdd(speed, speedIncrementI)

bounceFixed(fs, paddleYI) ==
  LET limit == iAdd(halfI, ballRadiusI)
      newDir == IF fs.dir < 0 THEN 1 ELSE -1
  IN  Bind(iMax(iSub(0, limit), iMin(limit, iSub(fs.y, paddleYI))),
           LAMBDA offsetI :
      Bind(iDiv(offsetI, limit), LAMBDA normI :
      Bind(iMul(normI, maxBounceAngleI), LAMBDA scaled :
      Bind(iMax(iSub(0, maxBounceAngleI), iMin(maxBounceAngleI, scaled)),
           LAMBDA angleI :
      Bind(cordicSinCos(angleI), LAMBDA sc :
        [vx |-> iMul(newSpeed(fs.speed), iMul(sc.cos, toFixed(newDir))),
         vy |-> iMul(newSpeed(fs.speed), sc.sin),
         speed |-> newSpeed(fs.speed),
         dir |-> newDir])))))

paddleYAtFixed(m, tAbsI) ==
  LET dtI == iMax(0, iSub(tAbsI, m.t0))
      dist == iAbs(iSub(m.target, m.y0))
      dir == IF iSub(m.target, m.y0) >= 0 THEN 1 ELSE -1
  IN  Bind(iMul(paddleMaxSpeedI, dtI), LAMBDA maxStep :
      Bind(iMin(dist, maxStep), LAMBDA step :
        clampPaddleY(iAdd(m.y0, step * dir), halfI, heightI)))

\* The aim perturbation of planTargetsForNextEventFix, in pixels.
aimOffset(eventIndex, gameId) ==
  LET paddleHeightPixels == Shr(paddleHeightI, FRAC_BITS)
  IN  Bind(Mul32(Word(eventIndex), Word(1664525)), LAMBDA pe :
      Bind(Mul32(Word(gameId), Word(1013904223)), LAMBDA pg :
      Bind(AddWord(<<pe[3], pe[4]>>, <<pg[3], pg[4]>>), LAMBDA h0 :
      Bind(XorWord(h0, ShrWord(h0, 16)), LAMBDA h1 :
      Bind(MulInt32(WordToInt32(h1), <<34283, 51819>>), LAMBDA h2 :
      Bind(XorWord(h2, ShrWord(h2, 13)), LAMBDA h3 :
        LET offsetRaw == ((h3[1] % paddleHeightPixels)
                            * (LIMB % paddleHeightPixels)
                          + h3[2]) % paddleHeightPixels
        IN  offsetRaw - (paddleHeightPixels \div 2)))))))

\* planTargetsForNextEventFix: the two paddle motions after planning.
planTargetsForNextEventFix(fs, eventIndex, gameId, leftM, rightM) ==
  LET tChangeI == fs.t0
  IN  Bind(timeToPaddleFixed(fs), LAMBDA dtToP :
      Bind(iAdd(fs.t0, dtToP), LAMBDA tHitI :
      Bind(iSub(tHitI, fs.t0), LAMBDA dt :
      Bind(reflect1D(fs.y, fs.vy, dt, yMinI, yMaxI), LAMBDA yInterceptI :
      Bind(toFixedInt(aimOffset(eventIndex, gameId)), LAMBDA aimOffsetI :
      Bind(iAdd(yInterceptI, aimOffsetI), LAMBDA aimed :
      Bind(clampPaddleY(aimed, halfI, heightI), LAMBDA desiredI :
      Bind(paddleYAtFixed(leftM, tChangeI), LAMBDA leftNow :
      Bind(paddleYAtFixed(rightM, tChangeI), LAMBDA rightNow :
        IF fs.dir < 0
        THEN [leftM |-> [y0 |-> leftNow, t0 |-> tChangeI, target |-> desiredI],
              rightM |-> [y0 |-> rightNow, t0 |-> tChangeI,
                          target |-> centerYI]]
        ELSE [leftM |-> [y0 |-> leftNow, t0 |-> tChangeI, target |-> centerYI],
              rightM |-> [y0 |-> rightNow, t0 |-> tChangeI,
                          target |-> desiredI]])))))))))

\* The hit test: |paddleY - yAtHit| <= PADDLE_HEIGHT / 2 + BALL_RADIUS, taken on
\* the floats fromFixed gives, which are exact for Q16.16 values.
hitTest(paddleYI, yAtHitI) ==
  iAbs(paddleYI - yAtHitI) <= toFixed(PADDLE_HEIGHT \div 2 + BALL_RADIUS)

(***************************************************************************)
(* One engine: [fs, leftM, rightM, leftScore, rightScore, ended].          *)
(***************************************************************************)

\* The state after construction: the first serve and the initial plan.
initEngine(tStartI, gameId) ==
  Bind(serveFixed(INITIAL_SERVE_DIRECTION, tStartI, 0, gameId), LAMBDA fs :
  Bind([y0 |-> fs.leftY, t0 |-> fs.t0, target |-> fs.leftY], LAMBDA m0L :
  Bind([y0 |-> fs.rightY, t0 |-> fs.t0, target |-> fs.rightY], LAMBDA m0R :
  Bind(planTargetsForNextEventFix(fs, 0, gameId, m0L, m0R), LAMBDA pl :
    [fs |-> fs, leftM |-> pl.leftM, rightM |-> pl.rightM,
     leftScore |-> 0, rightScore |-> 0, ended |-> FALSE]))))

\* What step computes before it logs anything: the hit time, the ball's
\* height there and both paddles' positions.
eventAt(e) ==
  LET movingLeft == e.fs.dir < 0
  IN  Bind(iAdd(e.fs.t0, timeToPaddleFixed(e.fs)), LAMBDA tHitI :
      Bind(ballYatFixed(e.fs, tHitI), LAMBDA yAtHitI :
      Bind(paddleYAtFixed(e.leftM, tHitI), LAMBDA leftYAtHitI :
      Bind(paddleYAtFixed(e.rightM, tHitI), LAMBDA rightYAtHitI :
        [tHitI |-> tHitI, yAtHitI |-> yAtHitI, movingLeft |-> movingLeft,
         leftYAtHitI |-> leftYAtHitI, rightYAtHitI |-> rightYAtHitI,
         hit |-> hitTest(IF movingLeft THEN leftYAtHitI ELSE rightYAtHitI,
                         yAtHitI)]))))

matchDecidedLate(ls, rs) == ls > POINTS_TO_WIN \/ rs > POINTS_TO_WIN

\* if (state.leftScore >= POINTS_TO_WIN || state.rightScore >= POINTS_TO_WIN)
matchDecided(ls, rs) == ls >= POINTS_TO_WIN \/ rs >= POINTS_TO_WIN

receiverDirOfLoser(movingLeft) == IF movingLeft THEN -1 ELSE 1

\* const receiverDir = movingLeft ? 1 : -1: the serve after a miss heads for
\* the player who scored.
receiverDir(movingLeft) == IF movingLeft THEN 1 ELSE -1

\* The rest of step once both positions are logged; eventsLen is the log's
\* length after the two pushes.  resetM is runP2PGame's reset of the paddle
\* timelines to the logged positions, which runGame leaves to the planner.
advanceEngine(e, ev, eventsLen, gameId, resetM) ==
  LET fsHit == [e.fs EXCEPT
                  !.x = IF ev.movingLeft THEN iAdd(leftFaceI, ballRadiusI)
                        ELSE iSub(rightFaceI, ballRadiusI),
                  !.y = ev.yAtHitI,
                  !.t0 = ev.tHitI]
      mL(t) == IF resetM
               THEN [y0 |-> ev.leftYAtHitI, t0 |-> t, target |-> ev.leftYAtHitI]
               ELSE e.leftM
      mR(t) == IF resetM
               THEN [y0 |-> ev.rightYAtHitI, t0 |-> t, target |-> ev.rightYAtHitI]
               ELSE e.rightM
      plan(fs2, ls, rs) ==
        Bind(mL(fs2.t0), LAMBDA leftM :
        Bind(mR(fs2.t0), LAMBDA rightM :
        Bind(planTargetsForNextEventFix(fs2, eventsLen, gameId, leftM, rightM),
             LAMBDA pl :
          [e EXCEPT !.fs = fs2, !.leftM = pl.leftM, !.rightM = pl.rightM,
                    !.leftScore = ls, !.rightScore = rs])))
  IN  IF ev.hit
      THEN Bind(bounceFixed(fsHit, IF ev.movingLeft THEN ev.leftYAtHitI
                                   ELSE ev.rightYAtHitI), LAMBDA b :
           Bind([fsHit EXCEPT !.vx = b.vx, !.vy = b.vy, !.speed = b.speed,
                              !.dir = b.dir,
                              !.leftY = ev.leftYAtHitI,
                              !.rightY = ev.rightYAtHitI], LAMBDA fs2 :
             plan(fs2, e.leftScore, e.rightScore)))
      ELSE LET ls == IF ev.movingLeft THEN e.leftScore ELSE e.leftScore + 1
               rs == IF ev.movingLeft THEN e.rightScore + 1 ELSE e.rightScore
           IN  IF matchDecided(ls, rs)
               THEN [e EXCEPT !.fs = fsHit, !.leftScore = ls, !.rightScore = rs,
                              !.ended = TRUE]
               ELSE Bind(serveFixed(receiverDir(ev.movingLeft), fsHit.t0,
                                    eventsLen, gameId), LAMBDA sv :
                    Bind([sv EXCEPT !.leftY = ev.leftYAtHitI,
                                    !.rightY = ev.rightYAtHitI], LAMBDA fs2 :
                      plan(fs2, ls, rs)))

(***************************************************************************)
(* Commitments (commitment.ts).  SHA-256 is taken as injective on the      *)
(* 44-byte message seed || u32 index || i64 paddleY, so a digest is        *)
(* modelled by the triple it hashes, the seed named by its place in        *)
(* SeedPool.                                                               *)
(***************************************************************************)
SEED_BYTES == 32
\* The zero bytes a seed may hold.
MAX_ZERO_BYTES == 28

\* Two seeds as generateCommitmentSeed returns them, and the degenerate ones
\* a log may carry.
SeedA == [i \in 1..SEED_BYTES |-> (i * 7 + 3) % 256]
SeedB == [i \in 1..SEED_BYTES |-> (i * 11 + 5) % 256]
SeedZero == [i \in 1..SEED_BYTES |-> 0]
SeedWeak == [i \in 1..SEED_BYTES |-> IF i <= SEED_BYTES - 3 THEN 0 ELSE i]
SeedShort == [i \in 1..(SEED_BYTES \div 2) |-> (i * 13 + 1) % 256]
SeedPool == <<SeedA, SeedB, SeedZero, SeedWeak, SeedShort>>

generateCommitmentSeed == {SeedA, SeedB}

\* computeCommitment for a paddleY that BigInt() parses; setUint32 and
\* setBigInt64 keep the low 32 and 64 bits (values here are below 2^31).
computeCommitment(seed, eventIndex, paddleY) ==
  <<CHOOSE k \in DOMAIN SeedPool : SeedPool[k] = seed, eventIndex, paddleY>>

\* A hex string is a sequence of characters: 0..15 the hex digits, larger
\* numbers any other character.
bytesToHex(bytes) ==
  [i \in 1..(2 * Len(bytes)) |->
     IF i % 2 = 1 THEN bytes[(i + 1) \div 2] \div 16 ELSE bytes[i \div 2] % 16]

hexValid(hex) == Len(hex) % 2 = 0 /\ \A i \in DOMAIN hex : hex[i] < 16

\* hexToBytes of a valid hex string (it throws on the others).
hexToBytes(hex) ==
  [i \in 1..(Len(hex) \div 2) |-> hex[2 * i - 1] * 16 + hex[2 * i]]

(***************************************************************************)
(* Values a JSON message can carry where a paddleY string is expected: a   *)
(* non-negative integer n stands for the decimal string of n, EmptyString  *)
(* for '' and Undefined for a missing field.  Only the first is truthy.    *)
(***************************************************************************)
EmptyString == 0 - 1
Undefined == 0 - 2
Truthy(v) == v >= 0

\* pendingEvent = null
Null == [eventIndex |-> Undefined, left |-> Undefined, right |-> Undefined]

(***************************************************************************)
(* Bounds                                                                  *)
(***************************************************************************)
\* The event cap, in pairs: MAX_EVENTS is scaled from 10000 so that one of
\* the matches below ends by score before the cap and the other reaches it.
MaxEventPairs == 17
\* Sockets that ever connect to one room.
MaxSockets == 3
\* paddle_position messages sent to the room in SpecRoom.
MaxRoomMsgs == 3
\* paddle_position messages sent to the room in SpecPairs.
MaxPairMsgs == 4
\* The largest eventIndex such a message carries.
MaxRoomIndex == 1
\* Messages of one peer not yet handled by the relay in SpecRelay.
MaxInFlight == 1
\* Events one peer may be ahead of the other in SpecRelay.
MaxLead == 1

MAX_EVENTS == 2 * MaxEventPairs

\* Matches: 53926 ends 3-0 after 17 events, 735 ends 3-1 after 21.
GameIds == {53926, 735}
\* performance.now() / 1000 at the start of a match, as Q16.16.
StartTimes == {0, 1966080}

Sockets == 1..MaxSockets
Roles == {"left", "right"}

VARIABLES
  sessions,      \* GameRoom.sessions, in insertion order
  gameId,        \* GameRoom.gameId
  gameStarted,   \* GameRoom.gameStarted
  events,        \* GameRoom.events
  pendingEvent,  \* GameRoom.pendingEvent
  conn,          \* per socket: "new", "open", "refused" or "closed"
  toClient,      \* per socket: control messages the room sent, oldest first
  lastForward,   \* per socket: the last opponent_paddle the room sent to it
  finalLogs,     \* every log sent in a game_end message
  lastMsg,       \* SpecRoom: the paddle_position the room handled last
  chan,          \* per socket: client messages on their way to the room
  peer,          \* per socket: the P2P client and its runP2PGame
  prod,          \* runGame
  val,           \* validateLog
  rep,           \* replayLog
  mm,            \* Matchmaker
  calc,          \* the ball whose kinematics are computed, or a reflect1D call
  loop           \* the render loop of runGame or runP2PGame and its steps

roomVars == <<sessions, gameId, gameStarted, events, pendingEvent, conn,
              toClient, lastForward, finalLogs>>
vars == <<sessions, gameId, gameStarted, events, pendingEvent, conn, toClient,
          lastForward, finalLogs, lastMsg, chan, peer, prod, val, rep, mm,
          calc, loop>>

(***************************************************************************)
(* GameRoom (cloudflare-server/src/index.ts)                               *)
(***************************************************************************)
\* sessions.get(ws): the place of the socket's session, 0 if it has none.
sessionOf(ws) ==
  IF \E k \in DOMAIN sessions : sessions[k].ws = ws
  THEN CHOOSE k \in DOMAIN sessions : sessions[k].ws = ws
  ELSE 0

send(box, ws, msg) == [box EXCEPT ![ws] = Append(@, msg)]

\* ws.send(msg) to every socket of `targets`.
sendAll(box, targets, msg) ==
  [w \in Sockets |-> IF w \in targets THEN Append(box[w], msg) ELSE box[w]]

sessionSockets == {sessions[k].ws : k \in DOMAIN sessions}

roomFullAtThree(existing) == existing >= 3

\* The last branch of fetch's role choice: neither 0 nor 1 players.
roomFull(existing) == existing >= 2

roomGameIdOfEach(existing, newId) == newId

\* this.gameId after the role choice: set by the socket that finds the room
\* empty, kept for the second.
roomGameId(existing, newId) == IF existing = 0 THEN newId ELSE gameId

\* fetch with an Upgrade: websocket header.  gameIdParam is what parseInt
\* makes of the gameId parameter, Undefined when the URL has none; random is
\* the draw of Math.random.
fetch(ws, gameIdParam, random) ==
  LET existing == Len(sessions)
      newId == IF gameIdParam # Undefined THEN gameIdParam ELSE random
      role == IF existing = 0 THEN "left" ELSE "right"
      session == [ws |-> ws, role |-> role, ready |-> FALSE,
                  commitments |-> <<>>, seed |-> <<>>]
  IN  /\ conn[ws] = "new"
      /\ IF existing = 0 /\ gameIdParam # Undefined /\ gameIdParam < 0
         THEN \* 400 Invalid game ID: the parsed value stays in this.gameId
              /\ gameId' = newId
              /\ conn' = [conn EXCEPT ![ws] = "refused"]
              /\ UNCHANGED <<sessions, gameStarted, toClient>>
         ELSE IF roomFull(existing)
         THEN \* 400 Room is full
              /\ conn' = [conn EXCEPT ![ws] = "refused"]
              /\ UNCHANGED <<sessions, gameId, gameStarted, toClient>>
         ELSE /\ gameId' = roomGameId(existing, newId)
              /\ gameStarted' = IF existing = 0 THEN FALSE ELSE gameStarted
              /\ sessions' = Append(sessions, session)
              /\ conn' = [conn EXCEPT ![ws] = "open"]
              /\ toClient' =
                   LET started ==
                         send(toClient, ws,
                              [type |-> "game_start", gameId |-> gameId',
                               yourRole |-> role,
                               opponentConnected |-> existing = 1])
                   IN  IF existing = 1
                       THEN send(started, sessions[1].ws,
                                 [type |-> "opponent_connected",
                                  gameId |-> gameId'])
                       ELSE started
      /\ UNCHANGED <<events, pendingEvent, lastForward, finalLogs>>



someReady(players) ==
  Len(players) = 2 /\ \E i \in DOMAIN players : players[i].ready

\* if (players.length === 2 && players.every((p) => p.ready))
allReady(players) ==
  Len(players) = 2 /\ \A i \in DOMAIN players : players[i].ready

\* handlePlayerReady
handlePlayerReady(ws, msg) ==
  LET k == sessionOf(ws)
      players == [sessions EXCEPT ![k].ready = TRUE]
  IN  /\ sessions' = players
      /\ gameStarted' = IF allReady(players) THEN TRUE ELSE gameStarted
      /\ toClient' = IF allReady(players)
                     THEN sendAll(toClient, sessionSockets,
                                  [type |-> "game_ready", gameId |-> gameId])
                     ELSE toClient
      /\ UNCHANGED <<gameId, events, pendingEvent, conn, lastForward, finalLogs>>

\* The pending event after a paddle_position is stored in it.
storePending(p, msg) ==
  IF p = Null \/ p.eventIndex # msg.eventIndex
  THEN [eventIndex |-> msg.eventIndex,
        left |-> IF msg.role = "left" THEN msg.paddleY ELSE Undefined,
        right |-> IF msg.role = "right" THEN msg.paddleY ELSE Undefined]
  ELSE IF msg.role = "left" THEN [p EXCEPT !.left = msg.paddleY]
       ELSE [p EXCEPT !.right = msg.paddleY]

pushPairFresh(evs, p) == <<p.left, p.right>>

\* this.events.push(left); this.events.push(right)
pushPair(evs, p) == evs \o <<p.left, p.right>>

eventCompleteEither(p) == Truthy(p.left) \/ Truthy(p.right)

\* if (this.pendingEvent.left && this.pendingEvent.right)
eventComplete(p) == Truthy(p.left) /\ Truthy(p.right)

relayTargetsAll(ws) == sessionSockets

\* this.sessions.forEach(... if (otherWs !== session.ws) ...): the sockets
\* the paddle position is relayed to.  sessions is a Map keyed by socket,
\* so each is visited once.
relayTargets(ws) == sessionSockets \ {ws}

\* handlePaddlePosition
handlePaddlePosition(ws, msg) ==
  LET k == sessionOf(ws)
      stored == storePending(pendingEvent, msg)
  IN  /\ sessions' = [sessions EXCEPT ![k].commitments = Append(@, msg.commitment)]
      /\ IF eventComplete(stored)
         THEN /\ events' = pushPair(events, stored)
              /\ pendingEvent' = Null
         ELSE /\ events' = events
              /\ pendingEvent' = stored
      /\ lastForward' =
           [w \in Sockets |->
              IF w \in relayTargets(ws)
              THEN [type |-> "opponent_paddle", eventIndex |-> msg.eventIndex,
                    paddleY |-> msg.paddleY]
              ELSE lastForward[w]]
      /\ UNCHANGED <<gameId, gameStarted, conn, toClient, finalLogs>>

RECURSIVE interleave(_, _, _)
interleaveBlocks(left, right, i) == left \o right

\* The loop of buildFinalLog from place i on.
interleave(left, right, i) ==
  IF i > Len(left) /\ i > Len(right) THEN <<>>
  ELSE (IF i <= Len(left) THEN <<left[i]>> ELSE <<>>)
       \o (IF i <= Len(right) THEN <<right[i]>> ELSE <<>>)
       \o interleave(left, right, i + 1)

\* players.find((p) => p.role === role): its place, 0 for undefined.
findRole(players, role) ==
  IF \E k \in DOMAIN players : players[k].role = role
  THEN CHOOSE k \in DOMAIN players :
         /\ players[k].role = role
         /\ \A j \in 1..(k - 1) : players[j].role # role
  ELSE 0

\* buildFinalLog, for players that hold a left and a right session.
buildFinalLog(players) ==
  LET leftPlayer == players[findRole(players, "left")]
      rightPlayer == players[findRole(players, "right")]
  IN  [v |-> 1,
       game_id |-> gameId,
       events |-> events,
       commitments |-> interleave(leftPlayer.commitments,
                                  rightPlayer.commitments, 1),
       player_left_seed |-> leftPlayer.seed,
       player_right_seed |-> rightPlayer.seed]

\* handlePlayerLog.  buildFinalLog throws when a role is missing; the handler
\* is left at that point by webSocketMessage's catch, the seed stored.
handlePlayerLog(ws, msg) ==
  LET k == sessionOf(ws)
      seed == IF sessions[k].role = "left" THEN msg.log.player_left_seed
              ELSE msg.log.player_right_seed
      players == [sessions EXCEPT ![k].seed = seed]
      allSeeds == Len(players) = 2 /\ \A i \in DOMAIN players : players[i].seed # <<>>
      throws == findRole(players, "left") = 0 \/ findRole(players, "right") = 0
  IN  /\ sessions' = players
      /\ IF allSeeds /\ ~throws
         THEN /\ toClient' = sendAll(toClient, sessionSockets,
                                     [type |-> "game_end",
                                      log |-> buildFinalLog(players)])
              /\ finalLogs' = finalLogs \cup {buildFinalLog(players)}
         ELSE UNCHANGED <<toClient, finalLogs>>
      /\ UNCHANGED <<gameId, gameStarted, events, pendingEvent, conn,
                     lastForward>>

eventsClearedWhenEmpty(rest) == IF Len(rest) = 0 THEN <<>> ELSE events

\* The events vector after 'Reset game if all players leave', which resets
\* gameStarted and gameId only.
eventsAfterClose(rest) == events

\* webSocketClose; what was sent to the closing socket and not yet taken is
\* lost with it.
webSocketClose(ws) ==
  LET k == sessionOf(ws)
      rest == SelectSeq(sessions, LAMBDA p : p.ws # ws)
  IN  /\ sessions' = rest
      /\ toClient' = [(IF k = 0 THEN toClient
                        ELSE sendAll(toClient, sessionSockets \ {ws},
                                     [type |-> "opponent_disconnected",
                                      role |-> sessions[k].role]))
                       EXCEPT ![ws] = <<>>]
      /\ conn' = [conn EXCEPT ![ws] = "closed"]
      /\ gameStarted' = IF Len(rest) = 0 THEN FALSE ELSE gameStarted
      /\ gameId' = IF Len(rest) = 0 THEN 0 ELSE gameId
      /\ events' = eventsAfterClose(rest)
      /\ UNCHANGED <<pendingEvent, lastForward, finalLogs>>

\* webSocketMessage: a message of a socket without a session is dropped.
webSocketMessage(ws, msg) ==
  IF sessionOf(ws) = 0 THEN UNCHANGED roomVars
  ELSE CASE msg.type = "player_ready" -> handlePlayerReady(ws, msg)
         [] msg.type = "paddle_position" -> handlePaddlePosition(ws, msg)
         [] msg.type = "player_log" -> handlePlayerLog(ws, msg)
         [] OTHER -> UNCHANGED roomVars

(***************************************************************************)
(* The P2P client (pong/p2p.ts) and runP2PGame (pong/engine-p2p.ts).  The  *)
(* page that drives them announces readiness once the role is known and    *)
(* starts runP2PGame(client.gameId, client.role) on game_ready.            *)
(***************************************************************************)
Clients == {1, 2}

\* The matches played through the relay: they end by score within the cap.
MatchIds == {53926}

\* performance.now() / 1000 of a peer's page when its match starts: the two
\* pages' clocks are unrelated.
clockAtStart(c) == IF c = 1 THEN 0 ELSE 1966080

NoEngine == [ended |-> FALSE]

\* createP2PClient: the client before any message.
newClient ==
  [role |-> "none", gameId |-> Undefined, opponentConnected |-> FALSE,
   gameReady |-> FALSE, readySent |-> FALSE, started |-> FALSE,
   mySeed |-> <<>>, eng |-> NoEngine, myEvents |-> <<>>,
   myCommitments |-> <<>>, fullEvents |-> <<>>, gameEnd |-> <<>>]

\* ws.onmessage
onmessage(p, msg) ==
  CASE msg.type = "game_start" ->
         [p EXCEPT !.role = msg.yourRole, !.gameId = msg.gameId,
                   !.opponentConnected = msg.opponentConnected]
    [] msg.type = "opponent_connected" ->
         [p EXCEPT !.opponentConnected = TRUE, !.gameId = msg.gameId]
    [] msg.type = "game_ready" -> [p EXCEPT !.gameReady = TRUE]
    [] msg.type = "game_end" -> [p EXCEPT !.gameEnd = Append(@, msg.log)]
    [] msg.type = "opponent_disconnected" ->
         [p EXCEPT !.opponentConnected = FALSE]
    [] OTHER -> p

\* getLog of runP2PGame
getLogP2P(p) ==
  [v |-> 1, game_id |-> p.gameId, events |-> p.fullEvents,
   commitments |-> p.myCommitments, role |-> p.role,
   player_left_seed |-> IF p.role = "left" THEN bytesToHex(p.mySeed) ELSE <<>>,
   player_right_seed |-> IF p.role = "left" THEN <<>> ELSE bytesToHex(p.mySeed)]

\* if (fullEvents.length >= MAX_EVENTS) of runP2PGame.step
capReachedP2P(p) == Len(p.fullEvents) >= MAX_EVENTS

myEventIndexOwn(p) == Len(p.myEvents)

\* const myEventIndex = role === 'left' ? fullEvents.length
\*                                       : fullEvents.length + 1
myEventIndex(p) ==
  IF p.role = "left" THEN Len(p.fullEvents) ELSE Len(p.fullEvents) + 1

\* runP2PGame.step past the cap check: the peer after the step and the
\* messages it sent.
stepP2P(p) ==
  Bind(eventAt(p.eng), LAMBDA ev :
    LET myPaddleY == IF p.role = "left" THEN ev.leftYAtHitI
                     ELSE ev.rightYAtHitI
        myCommitmentStr == computeCommitment(p.mySeed, myEventIndex(p),
                                             myPaddleY)
        paddleMsg == [type |-> "paddle_position", role |-> p.role,
                      eventIndex |-> Len(p.fullEvents) \div 2,
                      paddleY |-> myPaddleY, commitment |-> myCommitmentStr]
        full == p.fullEvents \o <<ev.leftYAtHitI, ev.rightYAtHitI>>
    IN  Bind(advanceEngine(p.eng, ev, Len(full), p.gameId, TRUE), LAMBDA eng2 :
        Bind([p EXCEPT !.myEvents = Append(@, myPaddleY),
                       !.myCommitments = Append(@, myCommitmentStr),
                       !.fullEvents = full,
                       !.eng = eng2], LAMBDA p2 :
          [peer |-> p2,
           out |-> IF eng2.ended
                   THEN <<paddleMsg,
                          [type |-> "player_log", log |-> getLogP2P(p2)]>>
                   ELSE <<paddleMsg>>])))

\* Events the peer of socket c has logged, in pairs.
pairsOf(c) == Len(peer[c].fullEvents) \div 2

\* A socket opens: fetch on the room, with or without a gameId parameter.
\* Sockets are numbered in the order they connect.
Connect(c) ==
  /\ \A d \in Clients : d < c => conn[d] # "new"
  /\ \E param \in MatchIds \cup {Undefined}, random \in MatchIds :
       fetch(c, param, random)
  /\ UNCHANGED <<lastMsg, chan, peer, prod, val, rep, mm, calc, loop>>

\* The client takes the oldest control message of its socket.
ClientReceive(c) ==
  /\ conn[c] = "open"
  /\ toClient[c] # <<>>
  /\ peer' = [peer EXCEPT ![c] = onmessage(@, Head(toClient[c]))]
  /\ toClient' = [toClient EXCEPT ![c] = Tail(@)]
  /\ UNCHANGED <<sessions, gameId, gameStarted, events, pendingEvent, conn,
                 lastForward, finalLogs, lastMsg, chan, prod, val, rep, mm,
                 calc, loop>>

\* sendPlayerReady: refused while client.gameId is falsy.
SendReady(c) ==
  /\ conn[c] = "open"
  /\ peer[c].role # "none"
  /\ ~peer[c].readySent
  /\ peer[c].gameId # Undefined /\ peer[c].gameId # 0
  /\ peer' = [peer EXCEPT ![c].readySent = TRUE]
  /\ chan' = [chan EXCEPT ![c] = Append(@, [type |-> "player_ready",
                                            gameId |-> peer[c].gameId])]
  /\ UNCHANGED <<roomVars, lastMsg, prod, val, rep, mm, calc, loop>>

\* runP2PGame is called: the seed is drawn and the first serve planned.
StartGame(c) ==
  /\ peer[c].gameReady
  /\ ~peer[c].started
  /\ peer' = [peer EXCEPT ![c].started = TRUE,
                          ![c].mySeed = IF c = 1 THEN SeedA ELSE SeedB,
                          ![c].eng = initEngine(clockAtStart(c), peer[c].gameId)]
  /\ UNCHANGED <<roomVars, lastMsg, chan, prod, val, rep, mm, calc, loop>>

\* render reaches the hit time and runs step.
PeerStep(c) ==
  /\ peer[c].started
  /\ ~peer[c].eng.ended
  /\ Len(chan[c]) < MaxInFlight
  /\ \A d \in Clients \ {c} : pairsOf(c) - pairsOf(d) < MaxLead
  /\ IF capReachedP2P(peer[c])
     THEN /\ peer' = [peer EXCEPT ![c].eng.ended = TRUE]
          /\ chan' = chan
     ELSE \E r \in {stepP2P(peer[c])} :
            /\ peer' = [peer EXCEPT ![c] = r.peer]
            /\ chan' = [chan EXCEPT ![c] = @ \o r.out]
  /\ UNCHANGED <<roomVars, lastMsg, prod, val, rep, mm, calc, loop>>

\* The room takes the oldest message of a socket.
Deliver(c) ==
  /\ conn[c] = "open"
  /\ chan[c] # <<>>
  /\ webSocketMessage(c, Head(chan[c]))
  /\ chan' = [chan EXCEPT ![c] = Tail(@)]
  /\ UNCHANGED <<lastMsg, peer, prod, val, rep, mm, calc, loop>>

idleProd == [pc |-> "off"]
idleVal == [pc |-> "off"]
idleRep == [pc |-> "off"]
idleMm == [pc |-> "off"]
idleCalc == [pc |-> "off"]
idleLoop == [pc |-> "off"]

InitRoom ==
  /\ sessions = <<>>
  /\ gameId = 0
  /\ gameStarted = FALSE
  /\ events = <<>>
  /\ pendingEvent = Null
  /\ conn = [w \in Sockets |-> "new"]
  /\ toClient = [w \in Sockets |-> <<>>]
  /\ lastForward = [w \in Sockets |-> Null]
  /\ finalLogs = {}
  /\ lastMsg = Null

InitRelay ==
  /\ InitRoom
  /\ chan = [w \in Sockets |-> <<>>]
  /\ peer = [w \in Sockets |-> newClient]
  /\ prod = idleProd
  /\ val = idleVal
  /\ rep = idleRep
  /\ mm = idleMm
  /\ calc = idleCalc
  /\ loop = idleLoop

NextRelay ==
  \E c \in Clients :
    \/ Connect(c)
    \/ ClientReceive(c)
    \/ SendReady(c)
    \/ StartGame(c)
    \/ PeerStep(c)
    \/ Deliver(c)

SpecRelay == InitRelay /\ [][NextRelay]_vars

(***************************************************************************)
(* The room under arbitrary clients: every socket may send any message at  *)
(* any time; readiness plays no part in what the room does with them.  Of *)
(* such a client only the number of paddle_position messages it has sent   *)
(* is kept: its n-th message carries the commitment <<ws, n>> and either   *)
(* the empty string or a paddleY string no other message carries.          *)
(***************************************************************************)
\* A gameId parameter parseInt reads as a negative number.
InvalidGameId == 0 - 1

\* The gameId the first socket of the room asks for.
RoomGameIds == {735}

anyClient == [sent |-> 0]

hasSession(ws) == conn[ws] = "open" /\ sessionOf(ws) # 0

RoomConnect(ws) ==
  /\ \A d \in Sockets : d < ws => conn[d] # "new"
  /\ \E param \in RoomGameIds \cup {Undefined, InvalidGameId},
        random \in RoomGameIds :
       fetch(ws, param, random)
  /\ UNCHANGED <<lastMsg, chan, peer, prod, val, rep, mm, calc, loop>>

\* paddle_position messages sent to the room so far.
RECURSIVE sentBy(_)
sentBy(S) ==
  IF S = {} THEN 0
  ELSE LET w == CHOOSE w \in S : TRUE IN peer[w].sent + sentBy(S \ {w})

roomMsgs == sentBy(Sockets)

\* The paddleY string of the n-th message of socket ws, sent for eventIndex:
\* a different string for every message; indexOf(s) is the eventIndex the
\* message that carried s was sent for.
paddleString(eventIndex, ws, n) == 100 * eventIndex + 10 * ws + n

indexOf(s) == s \div 100

\* A socket with a session sends player_ready, once.
RoomReady(ws) ==
  /\ hasSession(ws)
  /\ ~sessions[sessionOf(ws)].ready
  /\ webSocketMessage(ws, [type |-> "player_ready", gameId |-> gameId])
  /\ UNCHANGED <<lastMsg, chan, peer, prod, val, rep, mm, calc, loop>>

\* A paddle_position of socket ws, whatever its role, eventIndex and value.
paddleFrom(ws) ==
  /\ \E role \in Roles, eventIndex \in 0..MaxRoomIndex :
     \E paddleY \in {EmptyString,
                     paddleString(eventIndex, ws, peer[ws].sent + 1)} :
       LET msg == [type |-> "paddle_position", role |-> role,
                   eventIndex |-> eventIndex, paddleY |-> paddleY,
                   commitment |-> <<ws, peer[ws].sent + 1>>]
       IN  /\ webSocketMessage(ws, msg)
           /\ lastMsg' = msg
  /\ peer' = [peer EXCEPT ![ws].sent = @ + 1]
  /\ UNCHANGED <<chan, prod, val, rep, mm, calc, loop>>

RoomPaddle(ws) ==
  /\ hasSession(ws)
  /\ roomMsgs < MaxRoomMsgs
  /\ paddleFrom(ws)

RoomLog(ws) ==
  /\ hasSession(ws)
  /\ sessions[sessionOf(ws)].seed = <<>>
  /\ \E role \in Roles :
       webSocketMessage(ws,
         [type |-> "player_log",
          log |-> [player_left_seed |->
                     IF role = "left" THEN bytesToHex(SeedPool[ws]) ELSE <<>>,
                   player_right_seed |->
                     IF role = "left" THEN <<>> ELSE bytesToHex(SeedPool[ws])]])
  /\ UNCHANGED <<lastMsg, chan, peer, prod, val, rep, mm, calc, loop>>

RoomClose(ws) ==
  /\ conn[ws] = "open"
  /\ webSocketClose(ws)
  /\ UNCHANGED <<lastMsg, chan, peer, prod, val, rep, mm, calc, loop>>

InitAnyRoom ==
  /\ InitRoom
  /\ chan = [w \in Sockets |-> <<>>]
  /\ peer = [w \in Sockets |-> anyClient]
  /\ prod = idleProd
  /\ val = idleVal
  /\ rep = idleRep
  /\ mm = idleMm
  /\ calc = idleCalc
  /\ loop = idleLoop

NextRoom ==
  \E ws \in Sockets :
    \/ RoomConnect(ws)
    \/ RoomPaddle(ws)
    \/ RoomLog(ws)
    \/ RoomClose(ws)

SpecRoom == InitAnyRoom /\ [][NextRoom]_vars

(***************************************************************************)
(* The lobby: sockets join, announce readiness, reveal their seed and      *)
(* leave, no paddle_position being sent.  The sockets ask for different    *)
(* game ids.                                                               *)
(***************************************************************************)
LobbyGameIds == {735, 53926}

LobbyConnect(ws) ==
  /\ \A d \in Sockets : d < ws => conn[d] # "new"
  /\ \E param \in LobbyGameIds \cup {Undefined, InvalidGameId},
        random \in LobbyGameIds :
       fetch(ws, param, random)
  /\ UNCHANGED <<lastMsg, chan, peer, prod, val, rep, mm, calc, loop>>

NextLobby ==
  \E ws \in Sockets :
    \/ LobbyConnect(ws)
    \/ RoomReady(ws)
    \/ RoomLog(ws)
    \/ RoomClose(ws)

SpecLobby == InitAnyRoom /\ [][NextLobby]_vars

(***************************************************************************)
(* A room whose sockets only send paddle_position messages, enough of them *)
(* for two pairs.                                                          *)
(***************************************************************************)
PairsPaddle(ws) ==
  /\ hasSession(ws)
  /\ roomMsgs < MaxPairMsgs
  /\ paddleFrom(ws)

NextPairs ==
  \E ws \in Sockets :
    \/ RoomConnect(ws)
    \/ PairsPaddle(ws)

SpecPairs == InitAnyRoom /\ [][NextPairs]_vars

(***************************************************************************)
(* runGame (pong/engine.ts) beside a runP2PGame whose socket nobody reads. *)
(* step is cut where it awaits computeCommitment.                          *)
(***************************************************************************)
capReachedOffByOne(log) == Len(log.events) > MAX_EVENTS

\* if (log.events.length >= MAX_EVENTS) of runGame.step
capReached(log) == Len(log.events) >= MAX_EVENTS

\* runGame up to the kickoff.
newGame(g, tStart) ==
  [pc |-> "idle",
   gameId |-> g,
   leftSeed |-> SeedA,
   rightSeed |-> SeedB,
   eng |-> initEngine(tStart, g),
   ev |-> Null,
   log |-> [v |-> 1, events |-> <<>>, game_id |-> g, commitments |-> <<>>,
            player_left_seed |-> bytesToHex(SeedA),
            player_right_seed |-> bytesToHex(SeedB)]]

\* step is called: it returns at once when the match has ended; else the
\* cap check, the event's kinematics, and the first computeCommitment is
\* awaited.
StepStart ==
  /\ prod.pc = "idle"
  /\ IF prod.eng.ended THEN prod' = prod
     ELSE IF capReached(prod.log)
     THEN prod' = [prod EXCEPT !.eng.ended = TRUE]
     ELSE prod' = [prod EXCEPT !.pc = "awaitLeft", !.ev = eventAt(prod.eng)]
  /\ UNCHANGED <<roomVars, lastMsg, chan, peer, val, rep, mm, calc, loop>>

\* The left commitment arrives: left event and commitment are logged and
\* the second computeCommitment is awaited.
StepLeftLogged ==
  /\ prod.pc = "awaitLeft"
  /\ prod' = [prod EXCEPT
       !.pc = "awaitRight",
       !.log.events = Append(@, prod.ev.leftYAtHitI),
       !.log.commitments =
         Append(@, computeCommitment(prod.leftSeed, Len(prod.log.events),
                                     prod.ev.leftYAtHitI))]
  /\ UNCHANGED <<roomVars, lastMsg, chan, peer, val, rep, mm, calc, loop>>

rightEventIndexOfLeft(log) == Len(log.events) - 1

\* const rightEventIndex = log.events.length, read after the left push
rightEventIndex(log) == Len(log.events)

\* The right commitment arrives: the rest of step.
StepRightLogged ==
  /\ prod.pc = "awaitRight"
  /\ prod' = [prod EXCEPT
       !.pc = "idle",
       !.ev = Null,
       !.log.events = Append(@, prod.ev.rightYAtHitI),
       !.log.commitments =
         Append(@, computeCommitment(prod.rightSeed, rightEventIndex(prod.log),
                                     prod.ev.rightYAtHitI)),
       !.eng = advanceEngine(prod.eng, prod.ev, Len(prod.log.events) + 1,
                             prod.gameId, FALSE)]
  /\ UNCHANGED <<roomVars, lastMsg, chan, peer, val, rep, mm, calc, loop>>

\* step of the runP2PGame of socket 1.
LonePeerStep ==
  /\ IF peer[1].eng.ended
     THEN /\ peer' = peer
          /\ chan' = chan
     ELSE IF capReachedP2P(peer[1])
     THEN /\ peer' = [peer EXCEPT ![1].eng.ended = TRUE]
          /\ chan' = chan
     ELSE \E r \in {stepP2P(peer[1])} :
            /\ peer' = [peer EXCEPT ![1] = r.peer]
            /\ chan' = [chan EXCEPT ![1] = @ \o r.out]
  /\ UNCHANGED <<roomVars, lastMsg, prod, val, rep, mm, calc, loop>>

InitProducer ==
  /\ InitRoom
  /\ chan = [w \in Sockets |-> <<>>]
  /\ \E g \in GameIds, tStart \in StartTimes, role \in Roles :
       /\ prod = newGame(g, tStart)
       /\ peer = [w \in Sockets |->
                    IF w = 1
                    THEN [newClient EXCEPT
                            !.role = role, !.gameId = g, !.gameReady = TRUE,
                            !.readySent = TRUE, !.started = TRUE,
                            !.mySeed = SeedA,
                            !.eng = initEngine(clockAtStart(1), g)]
                    ELSE newClient]
  /\ val = idleVal
  /\ rep = idleRep
  /\ mm = idleMm
  /\ calc = idleCalc
  /\ loop = idleLoop

NextProducer ==
  \/ StepStart
  \/ StepLeftLogged
  \/ StepRightLogged
  \/ LonePeerStep

SpecProducer == InitProducer /\ [][NextProducer]_vars

(***************************************************************************)
(* runP2PGame and the wait for the opponent's paddle (pong/p2p.ts          *)
(* waitForOpponentPaddle).  The client of socket 1 plays alone; its        *)
(* opponent_paddle messages arrive in any order, with the value it         *)
(* predicted or another one, and the timers of its waits may expire.  A    *)
(* wait is the record of its eventIndex and of the value predicted for it. *)
(***************************************************************************)
\* Events the client plays.
MaxWaitPairs == 3

\* A paddleY string no engine logs.
UnpredictedPaddleYs == {1}

\* The client with the fields of the wait: the map of received paddles as
\* a set of <<eventIndex, paddleY>>, the handler slot as the eventIndex of
\* the wait whose handler it holds, the waits whose timer runs, the indices
\* received, the waits rejected and the desync warnings written.
waitingClient ==
  [pendingOpponentPaddles |-> {}, onOpponentPaddle |-> Undefined,
   waits |-> {}, received |-> {}, rejected |-> {}, warnings |-> 0]

verifyAdopting(p, eventIndex, predicted, opponentPaddleY) ==
  IF opponentPaddleY # predicted
  THEN [p EXCEPT !.warnings = @ + 1,
                 !.fullEvents[2 * eventIndex + (IF p.role = "left" THEN 2 ELSE 1)] =
                    opponentPaddleY]
  ELSE p

\* .then((opponentPaddleY) => { if (opponentPaddleY !== predictedStr)
\*   console.warn('[P2P] DESYNC WARNING ...') })
verifyOpponentPaddle(p, eventIndex, predicted, opponentPaddleY) ==
  IF opponentPaddleY # predicted THEN [p EXCEPT !.warnings = @ + 1] ELSE p

\* cleanup of the wait for eventIndex: clearTimeout, and the slot is cleared
\* when it still holds this wait's handler.
cleanup(p, eventIndex) ==
  [p EXCEPT !.waits = {w \in @ : w.eventIndex # eventIndex},
            !.onOpponentPaddle = IF @ = eventIndex THEN Undefined ELSE @]

\* waitForOpponentPaddle(client, eventIndex) with the callbacks step
\* attaches to it.
waitForOpponentPaddle(p, eventIndex, predicted) ==
  IF \E c \in p.pendingOpponentPaddles : c[1] = eventIndex /\ Truthy(c[2])
  THEN LET cached == CHOOSE c \in p.pendingOpponentPaddles : c[1] = eventIndex
       IN  verifyOpponentPaddle(
             [p EXCEPT !.pendingOpponentPaddles = @ \ {cached}],
             eventIndex, predicted, cached[2])
  ELSE [p EXCEPT !.waits = @ \cup {[eventIndex |-> eventIndex,
                                    predicted |-> predicted]},
                 !.onOpponentPaddle = eventIndex]

\* The handler of the wait w called with a received paddle.
handler(p, w, idx, paddleY) ==
  IF idx = w.eventIndex
  THEN verifyOpponentPaddle(cleanup(p, w.eventIndex), w.eventIndex,
                            w.predicted, paddleY)
  ELSE p

\* ws.onmessage, case 'opponent_paddle'
onOpponentPaddleMessage(p, msg) ==
  LET stored == [p EXCEPT !.pendingOpponentPaddles =
                   {c \in @ : c[1] # msg.eventIndex}
                     \cup {<<msg.eventIndex, msg.paddleY>>}]
  IN  IF p.onOpponentPaddle # Undefined
      THEN handler(stored,
                   CHOOSE w \in p.waits : w.eventIndex = p.onOpponentPaddle,
                   msg.eventIndex, msg.paddleY)
      ELSE stored

\* The timer of the wait for eventIndex fires: cleanup, reject, and the
\* catch of step does nothing.
onTimeout(p, eventIndex) ==
  [cleanup(p, eventIndex) EXCEPT !.rejected = @ \cup {eventIndex}]

\* The value the client logged for its opponent at the event eventIndex.
predictedAt(p, eventIndex) ==
  p.fullEvents[2 * eventIndex + (IF p.role = "left" THEN 2 ELSE 1)]

\* step of runP2PGame with its background verification; the wait is not
\* reached when the step ends the match.
WaitStep ==
  /\ ~peer[1].eng.ended
  /\ pairsOf(1) < MaxWaitPairs
  /\ \E r \in {stepP2P(peer[1])} :
       /\ peer' = [peer EXCEPT ![1] =
                     IF r.peer.eng.ended THEN r.peer
                     ELSE waitForOpponentPaddle(r.peer, pairsOf(1),
                                                predictedAt(r.peer, pairsOf(1)))]
       /\ chan' = [chan EXCEPT ![1] = @ \o r.out]
  /\ UNCHANGED <<roomVars, lastMsg, prod, val, rep, mm, calc, loop>>

\* An opponent_paddle arrives, once for an eventIndex.
PaddleArrives ==
  /\ \E eventIndex \in (0..(MaxWaitPairs - 1)) \ peer[1].received :
     \E paddleY \in UnpredictedPaddleYs
                     \cup (IF eventIndex < pairsOf(1)
                           THEN {predictedAt(peer[1], eventIndex)} ELSE {}) :
       peer' = [peer EXCEPT ![1] =
                  [onOpponentPaddleMessage(peer[1],
                     [type |-> "opponent_paddle", eventIndex |-> eventIndex,
                      paddleY |-> paddleY])
                   EXCEPT !.received = @ \cup {eventIndex}]]
  /\ UNCHANGED <<roomVars, lastMsg, chan, prod, val, rep, mm, calc, loop>>

\* The timeout of a wait expires.
WaitExpires ==
  /\ \E w \in peer[1].waits :
       peer' = [peer EXCEPT ![1] = onTimeout(peer[1], w.eventIndex)]
  /\ UNCHANGED <<roomVars, lastMsg, chan, prod, val, rep, mm, calc, loop>>

InitWait ==
  /\ InitRoom
  /\ chan = [w \in Sockets |-> <<>>]
  /\ \E g \in GameIds, role \in Roles :
       peer = [w \in Sockets |->
                 IF w = 1
                 THEN [newClient EXCEPT
                         !.role = role, !.gameId = g, !.gameReady = TRUE,
                         !.readySent = TRUE, !.started = TRUE,
                         !.mySeed = SeedA,
                         !.eng = initEngine(clockAtStart(1), g)]
                      @@ waitingClient
                 ELSE newClient]
  /\ prod = idleProd
  /\ val = idleVal
  /\ rep = idleRep
  /\ mm = idleMm
  /\ calc = idleCalc
  /\ loop = idleLoop

NextWait ==
  \/ WaitStep
  \/ PaddleArrives
  \/ WaitExpires

SpecWait == InitWait /\ [][NextWait]_vars

(***************************************************************************)
(* Matchmaker (cloudflare-server/src/index.ts).  A request brings the      *)
(* reading of Date.now() and the draws of Math.random() the handler makes; *)
(* the clock never runs backwards.  `handed` keeps the responses in the    *)
(* order of the requests.                                                  *)
(***************************************************************************)
\* Requests the matchmaker serves.
MaxRequests == 4

\* Milliseconds the clock advances in all.
MaxClock == 1

\* Math.random().toString(36).substring(7)
Suffixes == {"k3f9x", "q0z7m"}

\* waitingPlayer = null
NoWaitingPlayer == [roomId |-> <<>>, gameId |-> Undefined]

newMatchmaker == [pc |-> "on", waitingPlayer |-> NoWaitingPlayer, now |-> 0,
                  handed |-> <<>>]

\* `room-${Date.now()}-${Math.random().toString(36).substring(7)}`
roomIdOf(now, suffix) == <<"room", now, suffix>>

\* Matchmaker.fetch: the matchmaker after the request and its response.
matchmakerFetch(m, now, suffix, randomGameId) ==
  IF m.waitingPlayer # NoWaitingPlayer
  THEN [m EXCEPT !.waitingPlayer = NoWaitingPlayer,
                 !.handed = Append(@, m.waitingPlayer)]
  ELSE LET created == [roomId |-> roomIdOf(now, suffix),
                       gameId |-> randomGameId]
       IN  [m EXCEPT !.waitingPlayer = created,
                     !.handed = Append(@, created)]

\* A request for a match arrives.
FindMatch ==
  /\ Len(mm.handed) < MaxRequests
  /\ \E now \in {t \in {mm.now, mm.now + 1} : t <= MaxClock},
        suffix \in Suffixes, randomGameId \in LobbyGameIds :
       mm' = [matchmakerFetch(mm, now, suffix, randomGameId) EXCEPT !.now = now]
  /\ UNCHANGED <<roomVars, lastMsg, chan, peer, prod, val, rep, calc, loop>>

InitMatchmaker ==
  /\ InitRoom
  /\ chan = [w \in Sockets |-> <<>>]
  /\ peer = [w \in Sockets |-> newClient]
  /\ prod = idleProd
  /\ val = idleVal
  /\ rep = idleRep
  /\ mm = newMatchmaker
  /\ calc = idleCalc
  /\ loop = idleLoop

NextMatchmaker == FindMatch

SpecMatchmaker == InitMatchmaker /\ [][NextMatchmaker]_vars

(***************************************************************************)
(* The ball between events.  calc is [pc, fs, hits]: a ball served with    *)
(* any serve index, game id and direction, then hit any number of times up *)
(* to MaxHits at any impact offset the hit test lets through; the engine   *)
(* moves the ball to the paddle plane and bounces it (step of runGame).    *)
(***************************************************************************)
\* Serve indices (log.events.length at the serve): every serve angle occurs.
MaxServeIndex == 120
\* Hits in a row.
MaxHits == 3

\* Game ids of the serves, up to the int32 range of (volleyCount + gameId) | 0.
KinGameIds == {0, 53926, 2147483000}

\* fs.y - paddleY at a hit: within PADDLE_HEIGHT / 2 + BALL_RADIUS.
ImpactOffsets ==
  LET limit == iAdd(halfI, ballRadiusI)
  IN  {0 - limit, 0 - (limit \div 2), 0, 1, limit \div 2 + 1, limit}

\* The ball at the paddle plane it was heading for, bounced off a paddle
\* whose centre is offset above the ball.  timeToPaddleFixed throws when
\* vx is zero.
hitAt(c, offset) ==
  IF c.fs.vx = 0 THEN [c EXCEPT !.pc = "threw"]
  ELSE
  Bind(iAdd(c.fs.t0, timeToPaddleFixed(c.fs)), LAMBDA tHitI :
  Bind(ballYatFixed(c.fs, tHitI), LAMBDA yAtHitI :
  Bind([c.fs EXCEPT !.x = IF c.fs.dir < 0 THEN iAdd(leftFaceI, ballRadiusI)
                          ELSE iSub(rightFaceI, ballRadiusI),
                    !.y = yAtHitI,
                    !.t0 = tHitI], LAMBDA st :
  Bind(bounceFixed(st, iSub(yAtHitI, offset)), LAMBDA b :
    [c EXCEPT !.fs = [st EXCEPT !.vx = b.vx, !.vy = b.vy, !.speed = b.speed,
                                !.dir = b.dir],
              !.hits = @ + 1]))))

BallHit ==
  /\ calc.pc = "play"
  /\ calc.hits < MaxHits
  /\ \E offset \in ImpactOffsets :
       \E c \in {hitAt(calc, offset)} : calc' = c
  /\ UNCHANGED <<roomVars, lastMsg, chan, peer, prod, val, rep, mm, loop>>

InitKinematics ==
  /\ InitRoom
  /\ chan = [w \in Sockets |-> <<>>]
  /\ peer = [w \in Sockets |-> newClient]
  /\ prod = idleProd
  /\ val = idleVal
  /\ rep = idleRep
  /\ mm = idleMm
  /\ loop = idleLoop
  /\ \E receiverDirection \in {-1, 1}, volleyCount \in 0..MaxServeIndex,
        g \in KinGameIds :
       calc = [pc |-> "play",
               fs |-> serveFixed(receiverDirection, 0, volleyCount, g),
               hits |-> 0]

NextKinematics == BallHit

SpecKinematics == InitKinematics /\ [][NextKinematics]_vars

(***************************************************************************)
(* The render loops of runGame (pong/engine.ts) and runP2PGame             *)
(* (pong/engine-p2p.ts) with the calls of step they make.  loop is         *)
(* [pc, engine, game, frames, busy, steps]: game is the runGame or the     *)
(* peer the loop drives, frames the render callbacks requestAnimationFrame *)
(* holds, busy the flag stepping (runGame) or eventInProgress              *)
(* (runP2PGame), and steps the calls of step suspended at an await, each   *)
(* with the locals it computed before it.  A frame that comes before the   *)
(* hit time, or while the flag is set, only draws.                         *)
(***************************************************************************)
\* if (now >= tHit - 1e-4 && !stepping), once the hit time has come
mayStep(busy) == ~busy

mayStartEventAlways(busy) == TRUE

\* if (now >= tHit - 1e-4 && !eventInProgress), once the hit time has come
mayStartEvent(busy) == ~busy

without(seq, i) == SubSeq(seq, 1, i - 1) \o SubSeq(seq, i + 1, Len(seq))

\* render of runGame is called: it awaits step, and asks for the next frame
\* when step has returned.
RenderGame ==
  /\ loop.pc = "on"
  /\ loop.engine = "runGame"
  /\ loop.frames > 0
  /\ IF loop.game.eng.ended
     THEN loop' = [loop EXCEPT !.frames = @ - 1]
     ELSE /\ mayStep(loop.busy)
          /\ IF capReached(loop.game.log)
             THEN loop' = [loop EXCEPT !.game.eng.ended = TRUE]
             ELSE loop' = [loop EXCEPT
                    !.busy = TRUE,
                    !.frames = @ - 1,
                    !.steps = Append(@, [at |-> "left",
                                         ev |-> eventAt(loop.game.eng),
                                         index |-> Len(loop.game.log.events)])]
  /\ UNCHANGED <<roomVars, lastMsg, chan, peer, prod, val, rep, mm, calc>>

\* The left commitment of a suspended step arrives: left event and
\* commitment are pushed, rightEventIndex is read, the step awaits again.
GameLeftCommitted ==
  /\ loop.pc = "on"
  /\ loop.engine = "runGame"
  /\ \E i \in DOMAIN loop.steps :
       /\ loop.steps[i].at = "left"
       /\ loop' = [loop EXCEPT
            !.game.log.events = Append(@, loop.steps[i].ev.leftYAtHitI),
            !.game.log.commitments =
              Append(@, computeCommitment(loop.game.leftSeed,
                                          loop.steps[i].index,
                                          loop.steps[i].ev.leftYAtHitI)),
            !.steps[i].at = "right",
            !.steps[i].index = Len(loop.game.log.events) + 1]
  /\ UNCHANGED <<roomVars, lastMsg, chan, peer, prod, val, rep, mm, calc>>

\* The right commitment arrives: the rest of step, then the rest of the
\* render call that awaited it.
GameRightCommitted ==
  /\ loop.pc = "on"
  /\ loop.engine = "runGame"
  /\ \E i \in DOMAIN loop.steps :
       /\ loop.steps[i].at = "right"
       /\ loop' = [loop EXCEPT
            !.game.log.events = Append(@, loop.steps[i].ev.rightYAtHitI),
            !.game.log.commitments =
              Append(@, computeCommitment(loop.game.rightSeed,
                                          loop.steps[i].index,
                                          loop.steps[i].ev.rightYAtHitI)),
            !.game.eng = advanceEngine(loop.game.eng, loop.steps[i].ev,
                                       Len(loop.game.log.events) + 1,
                                       loop.game.gameId, FALSE),
            !.steps = without(@, i),
            !.busy = FALSE,
            !.frames = @ + 1]
  /\ UNCHANGED <<roomVars, lastMsg, chan, peer, prod, val, rep, mm, calc>>

\* render of runP2PGame is called: it starts step without awaiting it and
\* asks for the next frame.
RenderPeer ==
  /\ loop.pc = "on"
  /\ loop.engine = "runP2PGame"
  /\ loop.frames > 0
  /\ IF loop.game.eng.ended
     THEN loop' = [loop EXCEPT !.frames = @ - 1]
     ELSE /\ mayStartEvent(loop.busy)
          /\ IF capReachedP2P(loop.game)
             THEN loop' = [loop EXCEPT !.game.eng.ended = TRUE]
             ELSE loop' = [loop EXCEPT
                    !.busy = TRUE,
                    !.steps = Append(@, [at |-> "mine",
                                         ev |-> eventAt(loop.game.eng),
                                         index |-> myEventIndex(loop.game)])]
  /\ UNCHANGED <<roomVars, lastMsg, chan, peer, prod, val, rep, mm, calc>>

\* runP2PGame.step after its await, with the locals ev and index it
\* computed before it.
resumeP2P(p, ev, index) ==
  LET myPaddleY == IF p.role = "left" THEN ev.leftYAtHitI ELSE ev.rightYAtHitI
      full == p.fullEvents \o <<ev.leftYAtHitI, ev.rightYAtHitI>>
  IN  Bind(advanceEngine(p.eng, ev, Len(full), p.gameId, TRUE), LAMBDA eng2 :
        [p EXCEPT !.myEvents = Append(@, myPaddleY),
                  !.myCommitments =
                    Append(@, computeCommitment(p.mySeed, index, myPaddleY)),
                  !.fullEvents = full,
                  !.eng = eng2])

\* The commitment of a suspended step arrives: the rest of step, then the
\* callback that clears eventInProgress.
PeerCommitted ==
  /\ loop.pc = "on"
  /\ loop.engine = "runP2PGame"
  /\ \E i \in DOMAIN loop.steps :
       \E p \in {resumeP2P(loop.game, loop.steps[i].ev, loop.steps[i].index)} :
         loop' = [loop EXCEPT !.game = p,
                              !.steps = without(@, i),
                              !.busy = FALSE]
  /\ UNCHANGED <<roomVars, lastMsg, chan, peer, prod, val, rep, mm, calc>>

InitRender ==
  /\ InitRoom
  /\ chan = [w \in Sockets |-> <<>>]
  /\ peer = [w \in Sockets |-> newClient]
  /\ prod = idleProd
  /\ val = idleVal
  /\ rep = idleRep
  /\ mm = idleMm
  /\ calc = idleCalc
  /\ \E g \in GameIds, tStart \in StartTimes :
       \/ loop = [pc |-> "on", engine |-> "runGame", game |-> newGame(g, tStart),
                  frames |-> 1, busy |-> FALSE, steps |-> <<>>]
       \/ \E role \in Roles :
            loop = [pc |-> "on", engine |-> "runP2PGame",
                    game |-> [newClient EXCEPT
                                !.role = role, !.gameId = g,
                                !.gameReady = TRUE, !.readySent = TRUE,
                                !.started = TRUE, !.mySeed = SeedA,
                                !.eng = initEngine(tStart, g)],
                    frames |-> 1, busy |-> FALSE, steps |-> <<>>]

NextRender ==
  \/ RenderGame
  \/ GameLeftCommitted
  \/ GameRightCommitted
  \/ RenderPeer
  \/ PeerCommitted

SpecRender == InitRender /\ [][NextRender]_vars

(***************************************************************************)
(* reflect1D applied to one set of arguments (fixed.ts).                   *)
(***************************************************************************)
\* Longest flight, in whole seconds, handed to reflect1D.
MaxReflectTime == 5

\* Start heights in pixels: both walls, points between them and, since the
\* function takes any value, points beyond either wall.
ReflectStarts == {toFixed(n) : n \in {-20, 0, 10, 100, 470, 480, 500}}

\* Velocities in pixels per second, with two that are no whole number.
ReflectSpeeds == {toFixed(n) : n \in {-300, -50, 0, 50, 300}} \cup {-12345, 7}

\* Whole seconds up to the longest flight, a third and one and a half.
ReflectTimes == {toFixed(n) : n \in 0 .. MaxReflectTime} \cup {21845, 98304}

\* The walls of the tests and the walls of the engine.
ReflectWalls == {<<toFixed(0), toFixed(HEIGHT)>>, <<yMinI, yMaxI>>}

Reflect ==
  /\ calc.pc = "reflect"
  /\ calc.y = Undefined
  /\ calc' = [calc EXCEPT
       !.y = reflect1D(calc.y0, calc.vy, calc.dt, calc.minY, calc.maxY)]
  /\ UNCHANGED <<roomVars, lastMsg, chan, peer, prod, val, rep, mm, loop>>

InitReflect ==
  /\ InitRoom
  /\ chan = [w \in Sockets |-> <<>>]
  /\ peer = [w \in Sockets |-> newClient]
  /\ prod = idleProd
  /\ val = idleVal
  /\ rep = idleRep
  /\ mm = idleMm
  /\ loop = idleLoop
  /\ \E y0 \in ReflectStarts, vy \in ReflectSpeeds, dt \in ReflectTimes,
        walls \in ReflectWalls :
       calc = [pc |-> "reflect", y0 |-> y0, vy |-> vy, dt |-> dt,
               minY |-> walls[1], maxY |-> walls[2], y |-> Undefined]

NextReflect == Reflect

SpecReflect == InitReflect /\ [][NextReflect]_vars

(***************************************************************************)
(* Readiness: two pages connect to a room, each calls sendPlayerReady once *)
(* it has been told its role, and the room answers.  Sockets deliver what  *)
(* is sent and every page handles what it receives, so these steps are     *)
(* taken whenever they stay possible.                                      *)
(***************************************************************************)
\* Game ids a page asks for, from one end of the u32 range towards the
\* other.
ReadyGameIds == {0, 735, 53926, 2147483647}

\* The client with the record of its call of sendPlayerReady.
readyClient == newClient @@ [asked |-> FALSE]

ReadyConnect(c) ==
  /\ \A d \in Clients : d < c => conn[d] # "new"
  /\ \E param \in ReadyGameIds \cup {Undefined}, random \in ReadyGameIds :
       fetch(c, param, random)
  /\ UNCHANGED <<lastMsg, chan, peer, prod, val, rep, mm, calc, loop>>

\* if (!client.gameId) { ... return }: the guard of sendPlayerReady lets
\* the message go.
sendsReady(p) == p.gameId # Undefined /\ p.gameId # 0

\* sendPlayerReady(client), called once the page knows its role.
AskReady(c) ==
  /\ conn[c] = "open"
  /\ peer[c].role # "none"
  /\ ~peer[c].asked
  /\ IF sendsReady(peer[c])
     THEN /\ peer' = [peer EXCEPT ![c].asked = TRUE, ![c].readySent = TRUE]
          /\ chan' = [chan EXCEPT ![c] = Append(@, [type |-> "player_ready",
                                                    gameId |-> peer[c].gameId])]
     ELSE /\ peer' = [peer EXCEPT ![c].asked = TRUE]
          /\ chan' = chan
  /\ UNCHANGED <<roomVars, lastMsg, prod, val, rep, mm, calc, loop>>

InitReady ==
  /\ InitRoom
  /\ chan = [w \in Sockets |-> <<>>]
  /\ peer = [w \in Sockets |-> readyClient]
  /\ prod = idleProd
  /\ val = idleVal
  /\ rep = idleRep
  /\ mm = idleMm
  /\ calc = idleCalc
  /\ loop = idleLoop

NextReady ==
  \E c \in Clients :
    \/ ReadyConnect(c)
    \/ ClientReceive(c)
    \/ AskReady(c)
    \/ Deliver(c)

SpecReady ==
  /\ InitReady
  /\ [][NextReady]_vars
  /\ \A c \in Clients :
       /\ WF_vars(ClientReceive(c))
       /\ WF_vars(AskReady(c))
       /\ WF_vars(Deliver(c))

(***************************************************************************)
(* validateLog (pong/engine.ts).  A log is the record runGame's getLog     *)
(* returns plus `absent`, the names of the fields that are missing (or,    *)
(* for "log", the log itself being null).  A seed string that is missing   *)
(* and one that is '' are both falsy and both the empty sequence.  An     *)
(* events entry is the decimal string of n >= 0, or one of EmptyString,    *)
(* NonNumeric, JsNull and Undefined.                                       *)
(***************************************************************************)
\* A string BigInt() rejects, such as 'abc'.
NonNumeric == 0 - 3
\* null
JsNull == 0 - 4
\* No value: the conversion threw.
Thrown == 0 - 5

\* typeof raw === 'string'
isString(raw) == raw >= 0 \/ raw = EmptyString \/ raw = NonNumeric

\* typeof raw === 'string' ? BigInt(raw) : toFixed(raw).  BigInt('') is 0n
\* and BigInt('abc') throws; toFixed(null) is 0n and toFixed(undefined) is
\* BigInt(NaN), which throws.
eventValue(raw) ==
  IF raw >= 0 THEN raw
  ELSE IF raw = EmptyString \/ raw = JsNull THEN 0
  ELSE Thrown

NoReason == [text |-> "", at |-> Undefined]

\* validateLog has not returned.
NoResult ==
  [threw |-> FALSE, fair |-> FALSE, reason |-> NoReason,
   leftScore |-> 0, rightScore |-> 0]

\* A ValidateResult; `at` is the index a reason carries, `threw` that the
\* promise was rejected instead.
result(fair, text, at, ls, rs) ==
  [threw |-> FALSE, fair |-> fair, reason |-> [text |-> text, at |-> at],
   leftScore |-> ls, rightScore |-> rs]

rethrow(e) ==
  [threw |-> TRUE, fair |-> FALSE, reason |-> NoReason,
   leftScore |-> 0, rightScore |-> 0]

\* catch (e) { return { fair: false, reason: 'Validation error', ... } }
catchError(e) == result(FALSE, "Validation error", Undefined, 0, 0)

\* return from validateLog
done(v, r) == [v EXCEPT !.pc = "done", !.result = r]

\* Array.isArray(log.events) ? log.events.length : 0
eventsLen(log) == IF "events" \in log.absent THEN 0 ELSE Len(log.events)

zeroCount(bytes) == Cardinality({i \in DOMAIN bytes : bytes[i] = 0})

\* validateLog up to the commitment loop.
preflight(v) ==
  LET log == v.log
      fail(text) == done(v, result(FALSE, text, Undefined, 0, 0))
  IN  IF "log" \in log.absent \/ log.v # 1 THEN fail("Invalid log format")
      ELSE IF log.game_id < 0
      THEN fail("Invalid game_id format (must be u32)")
      ELSE IF \/ "commitments" \in log.absent
              \/ log.player_left_seed = <<>>
              \/ log.player_right_seed = <<>>
      THEN fail("Missing commitment data")
      ELSE IF Len(log.commitments) # eventsLen(log)
      THEN fail("Commitment count must match event count")
      ELSE IF ~hexValid(log.player_left_seed) \/ ~hexValid(log.player_right_seed)
      THEN done(v, catchError("Invalid hex string"))
      ELSE Bind(hexToBytes(log.player_left_seed), LAMBDA playerLeftSeed :
           Bind(hexToBytes(log.player_right_seed), LAMBDA playerRightSeed :
             IF \/ Len(playerLeftSeed) # SEED_BYTES
                \/ Len(playerRightSeed) # SEED_BYTES
             THEN fail("Invalid seed length (must be 32 bytes)")
             ELSE IF playerLeftSeed = playerRightSeed
             THEN fail("Players must use unique commitment seeds")
             ELSE IF \/ zeroCount(playerLeftSeed) > MAX_ZERO_BYTES
                     \/ zeroCount(playerRightSeed) > MAX_ZERO_BYTES
             THEN fail("Commitment seed has insufficient entropy")
             ELSE [v EXCEPT !.pc = "commit",
                            !.playerLeftSeed = playerLeftSeed,
                            !.playerRightSeed = playerRightSeed]))

commitmentMatchesLeftOnly(log, idx, expectedCommitment) ==
  idx % 2 = 1 \/ log.commitments[idx + 1] = expectedCommitment

\* log.commitments[idx] === expectedCommitment
commitmentMatches(log, idx, expectedCommitment) ==
  log.commitments[idx + 1] = expectedCommitment

\* One turn of the commitment loop, each awaiting computeCommitment; when
\* the loop ends, the first serve and the check for an empty log.
verifyCommitments(v) ==
  IF "events" \in v.log.absent THEN done(v, catchError("TypeError"))
  ELSE IF v.idx < Len(v.log.events)
  THEN LET paddleY == eventValue(v.log.events[v.idx + 1])
           seed == IF v.idx % 2 = 0 THEN v.playerLeftSeed
                   ELSE v.playerRightSeed
       IN  IF paddleY = Thrown THEN done(v, catchError("SyntaxError"))
           ELSE IF ~commitmentMatches(v.log, v.idx,
                                      computeCommitment(seed, v.idx, paddleY))
           THEN done(v, result(FALSE, "Commitment verification failed at index",
                               v.idx, 0, 0))
           ELSE [v EXCEPT !.idx = @ + 1]
  ELSE IF eventsLen(v.log) = 0
  THEN done(v, result(FALSE, "No events provided - game never started",
                      Undefined, 0, 0))
  ELSE [v EXCEPT !.pc = "replay",
                 !.state = serveFixed(INITIAL_SERVE_DIRECTION, 0, 0,
                                      v.log.game_id)]

finalChecksNoWinner(v) ==
  IF v.leftScore = v.rightScore
  THEN done(v, result(FALSE, "Game ended in a tie - invalid game", Undefined,
                      v.leftScore, v.rightScore))
  ELSE done(v, [threw |-> FALSE, fair |-> TRUE, reason |-> NoReason,
                leftScore |-> v.leftScore, rightScore |-> v.rightScore])

\* The checks of the final score, after the replay loop.
finalChecks(v) ==
  LET fail(text) ==
        done(v, result(FALSE, text, Undefined, v.leftScore, v.rightScore))
  IN  IF v.leftScore # POINTS_TO_WIN /\ v.rightScore # POINTS_TO_WIN
      THEN fail("Invalid final score - neither player reached POINTS_TO_WIN")
      ELSE IF v.leftScore > POINTS_TO_WIN \/ v.rightScore > POINTS_TO_WIN
      THEN fail("Invalid final score - game continued beyond POINTS_TO_WIN")
      ELSE IF v.leftScore = v.rightScore
      THEN fail("Game ended in a tie - invalid game")
      ELSE done(v, [threw |-> FALSE, fair |-> TRUE, reason |-> NoReason,
                    leftScore |-> v.leftScore, rightScore |-> v.rightScore])

processedVolleys(eventIdx) == eventIdx + 1

\* processedEvents in the turn that handles pair eventIdx: the counter is
\* raised by 2 in every turn.
processedEvents(eventIdx) == (eventIdx + 1) * 2

\* The replay loop's turn past its checks of the logged pair: the ball is
\* advanced to the hit and bounces, or a point is scored and served again.
replayAdvance(v, dtToPaddle, tHit, yAtHit, loggedLI, loggedRI) ==
  LET movingLeft == v.state.dir < 0
      hit == hitTest(IF movingLeft THEN loggedLI ELSE loggedRI, yAtHit)
  IN  Bind(reflect1D(v.state.y, v.state.vy, dtToPaddle, yMinI, yMaxI), LAMBDA y :
      Bind([v.state EXCEPT
              !.x = IF movingLeft THEN iAdd(leftFaceI, ballRadiusI)
                    ELSE iSub(rightFaceI, ballRadiusI),
              !.y = y, !.t0 = tHit,
              !.leftY = loggedLI, !.rightY = loggedRI], LAMBDA st :
        IF hit
        THEN Bind(bounceFixed(st, IF movingLeft THEN loggedLI ELSE loggedRI),
                  LAMBDA b :
               [v EXCEPT !.state = [st EXCEPT !.vx = b.vx, !.vy = b.vy,
                                              !.speed = b.speed, !.dir = b.dir],
                         !.eventIdx = @ + 1])
        ELSE LET ls == IF movingLeft THEN v.leftScore ELSE v.leftScore + 1
                 rs == IF movingLeft THEN v.rightScore + 1 ELSE v.rightScore
                 v2 == [v EXCEPT !.state = st, !.leftScore = ls,
                                 !.rightScore = rs]
             IN  IF ls >= POINTS_TO_WIN \/ rs >= POINTS_TO_WIN
                 THEN finalChecks(v2)
                 ELSE Bind(serveFixed(IF movingLeft THEN 1 ELSE -1, st.t0,
                                      processedEvents(v.eventIdx),
                                      v.log.game_id),
                           LAMBDA next :
                        [v2 EXCEPT !.state = [next EXCEPT !.leftY = st.leftY,
                                                          !.rightY = st.rightY],
                                   !.eventIdx = @ + 1])))

maxDeltaWholeField(dtI) == toFixed(HEIGHT)

maxDeltaHalfSpeed(dtI) == iMul(toFixed(PADDLE_MAX_SPEED \div 2), dtI)

\* maxDeltaI = iMul(toFixed(PADDLE_MAX_SPEED), dtI)
maxDeltaFor(dtI) == iMul(toFixed(PADDLE_MAX_SPEED), dtI)

\* One turn of the replay loop; when the loop ends, the final checks.
replay(v) ==
  LET fail(text, at) ==
        done(v, result(FALSE, text, at, v.leftScore, v.rightScore))
      rawL == v.log.events[v.eventIdx * 2 + 1]
      rawR == v.log.events[v.eventIdx * 2 + 2]
      loggedLI == eventValue(rawL)
      loggedRI == eventValue(rawR)
  IN  IF eventsLen(v.log) % 2 # 0 THEN fail("Malformed events length", Undefined)
      ELSE IF v.eventIdx >= eventsLen(v.log) \div 2 THEN finalChecks(v)
      ELSE IF v.state.vx = 0 THEN done(v, catchError("RangeError"))
      ELSE Bind(timeToPaddleFixed(v.state), LAMBDA dtToPaddle :
        IF ~(dtToPaddle > 0) THEN fail("Invalid kinematics", Undefined)
        ELSE Bind(iAdd(v.state.t0, dtToPaddle), LAMBDA tHit :
             Bind(ballYatFixed(v.state, tHit), LAMBDA yAtHit :
             Bind(maxDeltaFor(iSub(tHit, v.state.t0)), LAMBDA maxDeltaI :
               IF loggedLI = Thrown \/ loggedRI = Thrown
               THEN done(v, catchError("SyntaxError"))
               ELSE IF ~isString(rawL) \/ ~isString(rawR)
               THEN fail("Malformed event", Undefined)
               ELSE IF \/ iAbs(iSub(loggedLI, v.state.leftY)) > maxDeltaI
                       \/ iAbs(iSub(loggedRI, v.state.rightY)) > maxDeltaI
               THEN fail("Paddle moved too fast", v.eventIdx)
               ELSE IF \/ clampPaddleY(loggedLI, halfI, toFixed(HEIGHT)) # loggedLI
                       \/ clampPaddleY(loggedRI, halfI, toFixed(HEIGHT)) # loggedRI
               THEN fail("Paddle out of bounds", Undefined)
               ELSE replayAdvance(v, dtToPaddle, tHit, yAtHit,
                                  loggedLI, loggedRI)))))

(***************************************************************************)
(* The logs validateLog is given: what runGame's getLog returns at any     *)
(* moment of a match, as it is or changed in one of the ways below.        *)
(***************************************************************************)
\* Places (counted from 0) at which a log is changed.
TamperAt == {0, 5}

\* The seed that commits the entry at place i.
seedAt(i) == IF i % 2 = 0 THEN SeedA ELSE SeedB

\* The entry at place i replaced by raw, with the commitment its player
\* would compute for it when there is one.
lie(log, i, raw) ==
  [log EXCEPT !.events[i + 1] = raw,
              !.commitments[i + 1] =
                 IF eventValue(raw) = Thrown THEN @
                 ELSE computeCommitment(seedAt(i), i, eventValue(raw))]

\* The commitment at place i replaced by the digest of another position.
forge(log, i) ==
  [log EXCEPT !.commitments[i + 1] = <<@[1], @[2], @[3] + 1>>]

\* k more pairs after the end of the log, committed as their players would.
RECURSIVE extend(_, _)
extend(log, k) ==
  IF k = 0 THEN log
  ELSE LET n == Len(log.events)
           l == log.events[n - 1]
           r == log.events[n]
       IN  extend([log EXCEPT
                     !.events = @ \o <<l, r>>,
                     !.commitments = @ \o <<computeCommitment(SeedA, n, l),
                                            computeCommitment(SeedB, n + 1, r)>>],
                  k - 1)

SimpleKinds ==
  {"none", "nullLog", "badVersion", "badGameId", "noCommitments", "noLeftSeed",
   "noRightSeed", "noEvents", "countMismatch", "halfPair", "oddHex", "nonHex",
   "shortSeed", "equalSeeds", "zeroSeed", "weakSeed", "swapSeeds", "creep",
   "jump", "oddEvents", "scenarioS1"}

LieValues == {NonNumeric, Undefined, JsNull, EmptyString, toFixed(HEIGHT)}

Mutations ==
  [kind : SimpleKinds, at : {{}}, raw : {0}]
    \cup [kind : {"forge"}, at : {{i} : i \in TamperAt} \cup {TamperAt}, raw : {0}]
    \cup [kind : {"lie"}, at : {{i} : i \in TamperAt}, raw : LieValues]
    \cup [kind : {"extend"}, at : {{1}, {2}}, raw : {0}]

\* The change m can be made to the log.
applicable(log, m) ==
  CASE m.kind \in {"forge", "lie"} -> \A i \in m.at : i < Len(log.events)
    [] m.kind \in {"countMismatch", "halfPair", "oddEvents", "extend"} ->
         Len(log.events) >= 2
    [] m.kind \in {"creep", "jump"} -> Len(log.events) >= 4
    [] m.kind = "scenarioS1" -> Len(log.events) = 0
    [] OTHER -> TRUE

RECURSIVE forgeAll(_, _)
forgeAll(log, at) ==
  IF at = {} THEN log
  ELSE LET i == CHOOSE j \in at : TRUE IN forgeAll(forge(log, i), at \ {i})

tamper(log, m) ==
  CASE m.kind = "none" -> log
    [] m.kind = "nullLog" -> [log EXCEPT !.absent = {"log"}]
    [] m.kind = "badVersion" -> [log EXCEPT !.v = 2]
    [] m.kind = "badGameId" -> [log EXCEPT !.game_id = InvalidGameId]
    [] m.kind = "noCommitments" -> [log EXCEPT !.absent = {"commitments"}]
    [] m.kind = "noLeftSeed" -> [log EXCEPT !.player_left_seed = <<>>]
    [] m.kind = "noRightSeed" -> [log EXCEPT !.player_right_seed = <<>>]
    [] m.kind = "noEvents" ->
         [log EXCEPT !.absent = {"events"}, !.commitments = <<>>]
    [] m.kind = "countMismatch" ->
         [log EXCEPT !.commitments = SubSeq(@, 1, Len(@) - 1)]
    [] m.kind = "halfPair" ->
         [log EXCEPT !.events = SubSeq(@, 1, Len(@) - 1),
                     !.commitments = SubSeq(@, 1, Len(@) - 1)]
    [] m.kind = "oddEvents" ->
         [log EXCEPT !.events = SubSeq(@, 1, Len(@) - 1)]
    [] m.kind = "scenarioS1" ->
         [log EXCEPT !.game_id = 0,
                     !.player_left_seed = [i \in 1..(4 * SEED_BYTES) |-> 0],
                     !.player_right_seed = [i \in 1..(4 * SEED_BYTES) |-> 15]]
    [] m.kind = "oddHex" ->
         [log EXCEPT !.player_left_seed = SubSeq(@, 1, Len(@) - 1)]
    [] m.kind = "nonHex" -> [log EXCEPT !.player_right_seed[1] = 16]
    [] m.kind = "shortSeed" ->
         [log EXCEPT !.player_left_seed = bytesToHex(SeedShort)]
    [] m.kind = "equalSeeds" ->
         [log EXCEPT !.player_right_seed = log.player_left_seed]
    [] m.kind = "zeroSeed" ->
         [log EXCEPT !.player_left_seed = bytesToHex(SeedZero)]
    [] m.kind = "weakSeed" ->
         [log EXCEPT !.player_right_seed = bytesToHex(SeedWeak)]
    [] m.kind = "swapSeeds" ->
         [log EXCEPT !.player_left_seed = log.player_right_seed,
                     !.player_right_seed = log.player_left_seed]
    [] m.kind = "creep" -> lie(lie(log, 0, toFixed(100)), 2, toFixed(30))
    [] m.kind = "jump" -> lie(log, 3, toFixed(PADDLE_HEIGHT \div 2))
    [] m.kind = "forge" -> forgeAll(log, m.at)
    [] m.kind = "lie" -> lie(log, CHOOSE i \in m.at : TRUE, m.raw)
    [] m.kind = "extend" -> extend(log, CHOOSE k \in m.at : TRUE)

\* validateLog is called with a log.
Submit ==
  /\ val.pc = "off"
  /\ prod.pc = "idle"
  /\ \E m \in Mutations :
       /\ applicable(prod.log, m)
       /\ val' = [pc |-> "preflight",
                  log |-> tamper([v |-> prod.log.v,
                                  game_id |-> prod.log.game_id,
                                  events |-> prod.log.events,
                                  commitments |-> prod.log.commitments,
                                  player_left_seed |-> prod.log.player_left_seed,
                                  player_right_seed |-> prod.log.player_right_seed,
                                  absent |-> {}], m),
                  playerLeftSeed |-> <<>>, playerRightSeed |-> <<>>,
                  idx |-> 0, state |-> Null, leftScore |-> 0, rightScore |-> 0,
                  eventIdx |-> 0, result |-> NoResult]
  /\ UNCHANGED <<roomVars, lastMsg, chan, peer, prod, rep, mm, calc, loop>>

ValidatePreflight ==
  /\ val.pc = "preflight"
  /\ val' = preflight(val)
  /\ UNCHANGED <<roomVars, lastMsg, chan, peer, prod, rep, mm, calc, loop>>

ValidateCommitment ==
  /\ val.pc = "commit"
  /\ val' = verifyCommitments(val)
  /\ UNCHANGED <<roomVars, lastMsg, chan, peer, prod, rep, mm, calc, loop>>

ValidateReplay ==
  /\ val.pc = "replay"
  /\ val' = replay(val)
  /\ UNCHANGED <<roomVars, lastMsg, chan, peer, prod, rep, mm, calc, loop>>

(***************************************************************************)
(* replayLog (pong/engine.ts), given a log validateLog accepted.  The      *)
(* driver is [pc, log, fState, leftM, rightM, leftScore, rightScore,       *)
(* eventIdx]; pc is "ended" once its ended flag is set and "crashed" when  *)
(* a conversion or timeToPaddleFixed threw.  render calls step when the    *)
(* clock reaches the hit time, so steps follow one another in order.       *)
(***************************************************************************)
replayProcessedVolleys(eventIdx) == eventIdx + 1

\* processedEvents of replayLog.step
replayProcessedEvents(eventIdx) == (eventIdx + 1) * 2

\* log.events[i], undefined past the end of the array.
rawEvent(log, i) ==
  IF "events" \notin log.absent /\ i < Len(log.events) THEN log.events[i + 1]
  ELSE Undefined

\* setPaddleTargetsForNextEvent
setPaddleTargetsForNextEvent(r) ==
  IF 2 * r.eventIdx >= eventsLen(r.log) THEN r
  ELSE LET loggedLI == eventValue(rawEvent(r.log, r.eventIdx * 2))
           loggedRI == eventValue(rawEvent(r.log, r.eventIdx * 2 + 1))
       IN  IF loggedLI = Thrown \/ loggedRI = Thrown
           THEN [r EXCEPT !.pc = "crashed"]
           ELSE Bind(paddleYAtFixed(r.leftM, r.fState.t0), LAMBDA leftCurrentY :
                Bind(paddleYAtFixed(r.rightM, r.fState.t0), LAMBDA rightCurrentY :
                  [r EXCEPT !.leftM = [y0 |-> leftCurrentY, t0 |-> r.fState.t0,
                                       target |-> loggedLI],
                            !.rightM = [y0 |-> rightCurrentY, t0 |-> r.fState.t0,
                                        target |-> loggedRI]]))

\* replayLog up to the first frame.
replayLog(log, replayStartTime) ==
  Bind(serveFixed(INITIAL_SERVE_DIRECTION, replayStartTime, 0, log.game_id),
       LAMBDA fs :
    setPaddleTargetsForNextEvent(
      [pc |-> "run", log |-> log, fState |-> fs,
       leftM |-> [y0 |-> fs.leftY, t0 |-> fs.t0, target |-> fs.leftY],
       rightM |-> [y0 |-> fs.rightY, t0 |-> fs.t0, target |-> fs.rightY],
       leftScore |-> 0, rightScore |-> 0, eventIdx |-> 0]))

\* replayLog.step past its first line.
replayStep(r) ==
  IF r.fState.vx = 0 THEN [r EXCEPT !.pc = "crashed"]
  ELSE
  Bind(timeToPaddleFixed(r.fState), LAMBDA dtToPaddleI :
  Bind(iAdd(r.fState.t0, dtToPaddleI), LAMBDA tHitI :
  Bind(reflect1D(r.fState.y, r.fState.vy, dtToPaddleI, yMinI, yMaxI),
       LAMBDA yAtHitI :
  Bind(paddleYAtFixed(r.leftM, tHitI), LAMBDA leftYAtHitI :
  Bind(paddleYAtFixed(r.rightM, tHitI), LAMBDA rightYAtHitI :
    LET movingLeft == r.fState.dir < 0
        paddleYI == IF movingLeft THEN leftYAtHitI ELSE rightYAtHitI
        st == [r.fState EXCEPT
                 !.x = IF movingLeft THEN iAdd(leftFaceI, ballRadiusI)
                       ELSE iSub(rightFaceI, ballRadiusI),
                 !.y = yAtHitI, !.t0 = tHitI,
                 !.leftY = leftYAtHitI, !.rightY = rightYAtHitI]
    IN  IF hitTest(paddleYI, yAtHitI)
        THEN Bind(bounceFixed(st, paddleYI), LAMBDA b :
               setPaddleTargetsForNextEvent(
                 [r EXCEPT !.fState = [st EXCEPT !.vx = b.vx, !.vy = b.vy,
                                                 !.speed = b.speed,
                                                 !.dir = b.dir],
                           !.eventIdx = @ + 1]))
        ELSE LET ls == IF movingLeft THEN r.leftScore ELSE r.leftScore + 1
                 rs == IF movingLeft THEN r.rightScore + 1 ELSE r.rightScore
             IN  IF ls >= POINTS_TO_WIN \/ rs >= POINTS_TO_WIN
                 THEN [r EXCEPT !.pc = "ended", !.fState = st,
                                !.leftScore = ls, !.rightScore = rs]
                 ELSE Bind(serveFixed(IF movingLeft THEN 1 ELSE -1, st.t0,
                                      replayProcessedEvents(r.eventIdx),
                                      r.log.game_id), LAMBDA sv :
                        setPaddleTargetsForNextEvent(
                          [r EXCEPT
                             !.fState = [sv EXCEPT !.leftY = leftYAtHitI,
                                                   !.rightY = rightYAtHitI],
                             !.leftM = [y0 |-> leftYAtHitI, t0 |-> sv.t0,
                                        target |-> leftYAtHitI],
                             !.rightM = [y0 |-> rightYAtHitI, t0 |-> sv.t0,
                                         target |-> rightYAtHitI],
                             !.leftScore = ls, !.rightScore = rs,
                             !.eventIdx = @ + 1])))))))

\* replayLog is called with the log validateLog has just accepted.
ReplayStart ==
  /\ val.pc = "done"
  /\ val.result.fair
  /\ rep.pc = "off"
  /\ \E replayStartTime \in StartTimes :
       \E r \in {replayLog(val.log, replayStartTime)} : rep' = r
  /\ UNCHANGED <<roomVars, lastMsg, chan, peer, prod, val, mm, calc, loop>>

\* render reaches the hit time and calls step.
ReplayStep ==
  /\ rep.pc = "run"
  /\ 2 * rep.eventIdx < eventsLen(rep.log)
  /\ \E r \in {replayStep(rep)} : rep' = r
  /\ UNCHANGED <<roomVars, lastMsg, chan, peer, prod, val, mm, calc, loop>>

\* runGame plays until its log is handed to validateLog.
Play ==
  /\ val.pc = "off"
  /\ \/ StepStart
     \/ StepLeftLogged
     \/ StepRightLogged

InitValidate ==
  /\ InitRoom
  /\ chan = [w \in Sockets |-> <<>>]
  /\ peer = [w \in Sockets |-> newClient]
  /\ \E g \in GameIds, tStart \in StartTimes : prod = newGame(g, tStart)
  /\ val = idleVal
  /\ rep = idleRep
  /\ mm = idleMm
  /\ calc = idleCalc
  /\ loop = idleLoop

NextValidate ==
  \/ Play
  \/ Submit
  \/ ValidatePreflight
  \/ ValidateCommitment
  \/ ValidateReplay
  \/ ReplayStart
  \/ ReplayStep

SpecValidate == InitValidate /\ [][NextValidate]_vars

(***************************************************************************)
(* Properties of the room                                                  *)
(***************************************************************************)
halfOf(p, role) == IF role = "left" THEN p.left ELSE p.right

\* C1: the room's events grow only by complete pairs.  A step that changes
\* events appends exactly two values, a truthy left value then a truthy
\* right value, one taken from the message just handled and the other from
\* the half-event pending for that message's eventIndex; and every half the
\* pending event holds was received for the pending eventIndex, so nothing
\* is appended for an index whose other half has not arrived.
C1_PairsOnly ==
  [][/\ events' # events =>
          /\ pendingEvent # Null
          /\ pendingEvent.eventIndex = lastMsg'.eventIndex
          /\ LET l == IF lastMsg'.role = "left" THEN lastMsg'.paddleY
                      ELSE pendingEvent.left
                 r == IF lastMsg'.role = "right" THEN lastMsg'.paddleY
                      ELSE pendingEvent.right
             IN  /\ Truthy(l)
                 /\ Truthy(r)
                 /\ events' = events \o <<l, r>>
                 /\ pendingEvent' = Null
     /\ pendingEvent' # Null =>
          \A role \in Roles :
            halfOf(pendingEvent', role) # Undefined =>
              \/ /\ lastMsg'.role = role
                 /\ lastMsg'.eventIndex = pendingEvent'.eventIndex
                 /\ lastMsg'.paddleY = halfOf(pendingEvent', role)
              \/ /\ pendingEvent # Null
                 /\ pendingEvent.eventIndex = pendingEvent'.eventIndex
                 /\ halfOf(pendingEvent, role) = halfOf(pendingEvent', role)
    ]_vars

\* A pair has been appended and a later half-event is pending, every message
\* of the budget handled.
C1_Witness ==
  /\ Len(events) = 2
  /\ pendingEvent # Null
  /\ roomMsgs = MaxRoomMsgs

C10_DesyncDetected ==
  [][(/\ pendingEvent # Null
      /\ pendingEvent' # Null
      /\ pendingEvent'.eventIndex # pendingEvent.eventIndex)
     => \/ toClient' # toClient
        \/ conn' # conn
        \/ Len(sessions') < Len(sessions)]_vars

\* C11: the pairs of the room's events are in strictly increasing
\* eventIndex order: a pair appended later was sent for a greater eventIndex
\* than every pair before it, so no index is appended twice.
C11_PairsInIndexOrder ==
  \A i, j \in 1..(Len(events) \div 2) :
    i < j => indexOf(events[2 * i - 1]) < indexOf(events[2 * j - 1])

\* C12: a room never holds more than two peers; a connection that is
\* accepted adds one session, with role left when the room was empty and
\* role right when it held one peer; and a connection attempted while two
\* peers are present is refused and changes neither the sessions (so nor
\* their roles) nor the game id, and nothing is sent.
C12_TwoPeers ==
  [][/\ Len(sessions') <= 2
     /\ Len(sessions') > Len(sessions) =>
          /\ Len(sessions') = Len(sessions) + 1
          /\ SubSeq(sessions', 1, Len(sessions)) = sessions
          /\ sessions'[Len(sessions')].role =
               (IF Len(sessions) = 0 THEN "left" ELSE "right")
          /\ conn[sessions'[Len(sessions')].ws] = "new"
     /\ \A ws \in Sockets :
          (conn[ws] = "new" /\ conn'[ws] # "new" /\ Len(sessions) = 2) =>
            /\ conn'[ws] = "refused"
            /\ sessions' = sessions
            /\ gameId' = gameId
            /\ toClient' = toClient
    ]_vars

\* The first two sockets hold the left and the right role and the third
\* was refused.
C12_Witness ==
  /\ Len(sessions) = 2
  /\ sessions[1].ws = 1 /\ sessions[1].role = "left"
  /\ sessions[2].ws = 2 /\ sessions[2].role = "right"
  /\ conn[3] = "refused"
  /\ gameId = 735

\* A peer has disconnected from the match the room is holding: the socket is
\* closed and a session that was there before it joined is still present, so
\* the room has not been empty since.
leftDuringMatch ==
  \E w \in Sockets, k \in DOMAIN sessions :
    conn[w] = "closed" /\ sessions[k].ws < w

\* C13: once a peer has disconnected from a match for which no game_end was
\* sent (the seeds of both peers had not been received), no game_end log is
\* emitted for that match, whatever the room receives afterwards.
C13_NoLogAfterDisconnect ==
  [][(leftDuringMatch /\ finalLogs = {}) => finalLogs' = {}]_vars

\* s is the beginning of t.
isPrefix(s, t) == Len(s) <= Len(t) /\ SubSeq(t, 1, Len(s)) = s

seedsComplete(players) ==
  Len(players) = 2 /\ \A k \in DOMAIN players : players[k].seed # <<>>

\* C15: when the room takes the player_log that completes the seeds of its
\* two peers, it sends game_end with one and the same log, holding both
\* seeds, to both of them; and no game_end is sent while a peer's seed is
\* missing.
C15_GameEndToBoth ==
  [][/\ (seedsComplete(sessions') /\ ~seedsComplete(sessions)) =>
          \E log \in finalLogs' :
            /\ log.player_left_seed # <<>>
            /\ log.player_right_seed # <<>>
            /\ \A k \in DOMAIN sessions' :
                 toClient'[sessions'[k].ws] =
                   Append(toClient[sessions'[k].ws],
                          [type |-> "game_end", log |-> log])
     /\ (finalLogs' # finalLogs \/ toClient' # toClient) =>
          \/ seedsComplete(sessions')
          \/ \A w \in Sockets :
               \/ toClient'[w] = toClient[w]
               \/ toClient'[w] = <<>>
               \/ /\ Len(toClient'[w]) = Len(toClient[w]) + 1
                  /\ toClient'[w][Len(toClient'[w])].type # "game_end"
    ]_vars

\* The room has sent game_ready to socket w in this step.
gotGameReady(w) ==
  /\ Len(toClient'[w]) = Len(toClient[w]) + 1
  /\ toClient'[w][Len(toClient'[w])] = [type |-> "game_ready", gameId |-> gameId]

\* C16: the room sends game_ready only when two peers are connected and both
\* have sent player_ready (which alone sets a session's ready flag), and
\* then to both of them; and when the second of two connected
\* peers becomes ready, game_ready is sent to both.
C16_GameReady ==
  [][/\ (\E w \in Sockets : gotGameReady(w)) =>
          /\ Len(sessions') = 2
          /\ \A k \in DOMAIN sessions' :
               /\ sessions'[k].ready
               /\ conn'[sessions'[k].ws] = "open"
               /\ gotGameReady(sessions'[k].ws)
          /\ gameStarted'
     /\ (/\ Len(sessions') = 2
         /\ \A k \in DOMAIN sessions' : sessions'[k].ready
         /\ \E k \in DOMAIN sessions : ~sessions[k].ready
         /\ Len(sessions) = 2)
        => \A k \in DOMAIN sessions' : gotGameReady(sessions'[k].ws)
    ]_vars

\* Both peers of a room have been sent game_ready, the second of them having
\* joined after the first one's opponent left.
C16_Witness ==
  /\ conn[2] = "closed"
  /\ Len(sessions) = 2
  /\ \A w \in {1, 3} :
       \E i \in DOMAIN toClient[w] : toClient[w][i].type = "game_ready"

(***************************************************************************)
(* Properties of a match played through the relay                          *)
(***************************************************************************)
matchOver ==
  \A c \in Clients : peer[c].started /\ peer[c].eng.ended /\ chan[c] = <<>>

\* C2: when both peers have played the match to its end and the relay has
\* handled all their messages, the relay's events equal each peer's
\* fullEvents, whatever the order the messages arrived in.
C2_RelayEqualsPeers ==
  matchOver => \A c \in Clients : events = peer[c].fullEvents

\* C9: every log sent in a game_end message has as many commitments as
\* events.
C9_LogLengths ==
  \A log \in finalLogs : Len(log.commitments) = Len(log.events)

(***************************************************************************)
(* Properties of the producers                                             *)
(***************************************************************************)
endedByCap(e, n) ==
  /\ e.ended
  /\ n = MAX_EVENTS
  /\ e.leftScore < POINTS_TO_WIN
  /\ e.rightScore < POINTS_TO_WIN

\* C7: in runGame and in runP2PGame the log never holds more than MAX_EVENTS
\* events or commitments, and a step that finds the cap reached ends the
\* match and appends neither an event nor a commitment nor sends a message.
C7_CapEnforced ==
  [][/\ Len(prod'.log.events) <= MAX_EVENTS
     /\ Len(prod'.log.commitments) <= MAX_EVENTS
     /\ Len(peer'[1].fullEvents) <= MAX_EVENTS
     /\ Len(peer'[1].myCommitments) <= MAX_EVENTS
     /\ (prod' # prod /\ prod.pc = "idle" /\ Len(prod.log.events) >= MAX_EVENTS)
          => /\ prod'.eng.ended
             /\ prod'.log = prod.log
     /\ (peer' # peer /\ Len(peer[1].fullEvents) >= MAX_EVENTS)
          => /\ peer'[1].eng.ended
             /\ peer'[1].fullEvents = peer[1].fullEvents
             /\ peer'[1].myCommitments = peer[1].myCommitments
             /\ chan' = chan
    ]_vars

\* Both producers were stopped by the cap with the match undecided.
C7_Witness ==
  /\ endedByCap(prod.eng, Len(prod.log.events))
  /\ endedByCap(peer[1].eng, Len(peer[1].fullEvents))

(***************************************************************************)
(* Properties of validateLog                                               *)
(***************************************************************************)
validated == val.pc = "done"

\* C3: whatever the log (missing or ill-typed fields, invalid hex seeds,
\* non-numeric event strings), a call of validateLog that has started can
\* take its next step until it returns, it returns a result instead of
\* throwing, and a result with fair = false carries a reason.
C3_NeverThrows ==
  /\ val.pc \in {"preflight", "commit", "replay"} =>
       ENABLED (ValidatePreflight \/ ValidateCommitment \/ ValidateReplay)
  /\ validated =>
       /\ ~val.result.threw
       /\ ~val.result.fair => val.result.reason.text # ""

\* A log with a non-numeric event string was answered 'Validation error'.
C3_Witness ==
  /\ validated
  /\ val.log.absent = {}
  /\ \E i \in DOMAIN val.log.events : val.log.events[i] = NonNumeric
  /\ val.result = result(FALSE, "Validation error", Undefined, 0, 0)

\* The log passes every check validateLog makes before it verifies the
\* commitments.
reachesCommitments(log) ==
  /\ log.absent = {}
  /\ log.v = 1
  /\ log.game_id >= 0
  /\ Len(log.commitments) = Len(log.events)
  /\ \A hex \in {log.player_left_seed, log.player_right_seed} :
       /\ hex # <<>>
       /\ hexValid(hex)
       /\ Len(hex) = 2 * SEED_BYTES
       /\ zeroCount(hexToBytes(hex)) <= MAX_ZERO_BYTES
  /\ log.player_left_seed # log.player_right_seed

\* The entry at place i (from 0) has a value and commitments[i] is the
\* commitment recomputed from it, i and the seed of i's parity.
commitmentHolds(log, i) ==
  /\ eventValue(log.events[i + 1]) # Thrown
  /\ log.commitments[i + 1] =
       computeCommitment(hexToBytes(IF i % 2 = 0 THEN log.player_left_seed
                                    ELSE log.player_right_seed),
                         i, eventValue(log.events[i + 1]))

\* C4: a log validateLog accepts has every commitments[i] equal to the
\* commitment recomputed from events[i], i and the left seed for even i, the
\* right seed for odd i; and a log that reaches the commitment check and
\* whose first entry not in order has a commitment that differs from the
\* recomputed one is rejected with 'Commitment verification failed at
\* index i' for that smallest i.
C4_CommitmentsVerified ==
  validated =>
    /\ val.result.fair =>
         /\ reachesCommitments(val.log)
         /\ \A i \in 0..(Len(val.log.events) - 1) : commitmentHolds(val.log, i)
    /\ reachesCommitments(val.log) =>
         \A i \in 0..(Len(val.log.events) - 1) :
           (/\ \A j \in 0..(i - 1) : commitmentHolds(val.log, j)
            /\ eventValue(val.log.events[i + 1]) # Thrown
            /\ ~commitmentHolds(val.log, i))
           => val.result = result(FALSE, "Commitment verification failed at index",
                                  i, 0, 0)

\* Two commitments of a log differ from the recomputed ones and the log was
\* rejected for the first of them.
C4_Witness ==
  /\ validated
  /\ reachesCommitments(val.log)
  /\ \E i, j \in 0..(Len(val.log.events) - 1) :
       /\ i < j
       /\ ~commitmentHolds(val.log, i)
       /\ ~commitmentHolds(val.log, j)
       /\ val.result.reason.at = i
       /\ val.result.reason.text = "Commitment verification failed at index"

\* C5: a result with fair = true has exactly one of leftScore, rightScore
\* equal to POINTS_TO_WIN and the other smaller; and a log whose replay runs
\* through all its pairs with neither player at POINTS_TO_WIN is rejected
\* with an 'Invalid final score' reason.
C5_FinalScore ==
  validated =>
    /\ val.result.fair =>
         \/ val.result.leftScore = POINTS_TO_WIN
              /\ val.result.rightScore < POINTS_TO_WIN
         \/ val.result.rightScore = POINTS_TO_WIN
              /\ val.result.leftScore < POINTS_TO_WIN
    /\ (/\ val.state # Null
        /\ eventsLen(val.log) % 2 = 0
        /\ val.eventIdx = eventsLen(val.log) \div 2
        /\ val.leftScore # POINTS_TO_WIN
        /\ val.rightScore # POINTS_TO_WIN)
       => val.result =
            result(FALSE,
                   "Invalid final score - neither player reached POINTS_TO_WIN",
                   Undefined, val.leftScore, val.rightScore)

\* A log was accepted with the loser having scored.
C5_Witness ==
  /\ validated
  /\ val.result.fair
  /\ val.result.leftScore = POINTS_TO_WIN
  /\ val.result.rightScore > 0

servedWith(fs, k, g, leftScored) ==
  \E sv \in {serveFixed(IF leftScored THEN -1 ELSE 1, fs.t0, k, g)} :
    /\ fs.vx = sv.vx
    /\ fs.vy = sv.vy
    /\ fs.dir = sv.dir
    /\ fs.speed = sv.speed
    /\ fs.x = sv.x
    /\ fs.y = sv.y

\* C17: in runGame, validateLog and replayLog alike, the serve that follows
\* a miss is the serve of index k, the number of entries of events up to and
\* including the pair of the missed event, toward the player who scored;
\* and the first serve of each is the serve of index 0 in direction
\* INITIAL_SERVE_DIRECTION.
C17_SameServeIndex ==
  [][/\ (prod.pc = "awaitRight" /\ prod'.pc = "idle" /\ ~prod'.eng.ended
          /\ prod'.eng.leftScore + prod'.eng.rightScore
               > prod.eng.leftScore + prod.eng.rightScore)
        => servedWith(prod'.eng.fs, Len(prod'.log.events), prod.gameId,
                      prod'.eng.leftScore > prod.eng.leftScore)
     /\ (val.pc = "replay" /\ val'.pc = "replay"
          /\ val'.leftScore + val'.rightScore > val.leftScore + val.rightScore)
        => servedWith(val'.state, 2 * val'.eventIdx, val.log.game_id,
                      val'.leftScore > val.leftScore)
     /\ (rep.pc = "run" /\ rep'.pc = "run"
          /\ rep'.leftScore + rep'.rightScore > rep.leftScore + rep.rightScore)
        => servedWith(rep'.fState, 2 * rep'.eventIdx, rep.log.game_id,
                      rep'.leftScore > rep.leftScore)
     /\ (prod.pc = "idle" /\ prod.log.events = <<>>)
        => servedWith(prod.eng.fs, 0, prod.gameId, INITIAL_SERVE_DIRECTION < 0)
     /\ (val.pc = "commit" /\ val'.pc = "replay")
        => servedWith(val'.state, 0, val.log.game_id,
                      INITIAL_SERVE_DIRECTION < 0)
     /\ (rep.pc = "off" /\ rep'.pc = "run")
        => servedWith(rep'.fState, 0, val.log.game_id,
                      INITIAL_SERVE_DIRECTION < 0)
    ]_vars

\* runGame's finished match was validated as it is and replayed to its end,
\* each of the three having served after a miss.
C17_Witness ==
  /\ prod.eng.ended
  /\ val.pc = "done"
  /\ val.log.events = prod.log.events
  /\ rep.pc = "ended"
  /\ rep.leftScore + rep.rightScore >= 2

\* replayLog has been driven to the end of its log.
replayOver ==
  \/ rep.pc = "ended"
  \/ rep.pc = "run" /\ 2 * rep.eventIdx >= eventsLen(rep.log)

\* C18: replayLog given a log validateLog accepted runs through it without
\* failing, and at the end of the log its leftScore and rightScore are the
\* ones validateLog returned.
C18_ReplayAgrees ==
  rep.pc # "off" =>
    /\ rep.pc # "crashed"
    /\ replayOver =>
         /\ rep.leftScore = val.result.leftScore
         /\ rep.rightScore = val.result.rightScore

\* A replay that started at a later clock time has reached the end of a log
\* in which both players scored.
C18_Witness ==
  /\ replayOver
  /\ rep.leftScore > 0
  /\ rep.rightScore > 0
  /\ rep.fState.t0 > 1966080

(***************************************************************************)
(* Properties of the replay loop of validateLog                            *)
(***************************************************************************)
\* The replay loop is about to check the pair at val.eventIdx: the pair is
\* there, both entries are decimal strings and the ball has a positive time
\* dt to the paddle plane.
pairUnderCheck ==
  /\ val.pc = "replay"
  /\ eventsLen(val.log) % 2 = 0
  /\ 2 * val.eventIdx < eventsLen(val.log)
  /\ val.state.vx # 0
  /\ timeToPaddleFixed(val.state) > 0
  /\ \A i \in {2 * val.eventIdx + 1, 2 * val.eventIdx + 2} :
       val.log.events[i] >= 0

\* The paddle of `side` moves by more than PADDLE_MAX_SPEED * dt between the
\* previous pair (the centre line before the first) and the pair under
\* check.  PADDLE_MAX_SPEED is a whole number, so the product is a Q16.16
\* value.
movesTooFast(side) ==
  LET dt == timeToPaddleFixed(val.state)
      logged == val.log.events[2 * val.eventIdx + (IF side = "left" THEN 1 ELSE 2)]
      prev == IF side = "left" THEN val.state.leftY ELSE val.state.rightY
  IN  iAbs(logged - prev) > PADDLE_MAX_SPEED * dt

allFieldsGiven(log) ==
  /\ log.absent = {}
  /\ log.player_left_seed # <<>>
  /\ log.player_right_seed # <<>>
  /\ hexValid(log.player_left_seed)
  /\ hexValid(log.player_right_seed)

\* A seed that is not 32 bytes long or has more than MAX_ZERO_BYTES zeros.
seedRefused(hex) ==
  \/ Len(hexToBytes(hex)) # SEED_BYTES
  \/ zeroCount(hexToBytes(hex)) > MAX_ZERO_BYTES

\* The first group of checks, in the documented order, the log violates:
\* 1 version and game_id, 2 events, 3 commitment count, 4 seeds, 0 none.
firstViolated(log) ==
  IF log.v # 1 \/ log.game_id < 0 THEN 1
  ELSE IF \/ eventsLen(log) = 0
          \/ eventsLen(log) % 2 # 0
          \/ eventsLen(log) > MAX_EVENTS
  THEN 2
  ELSE IF Len(log.commitments) # eventsLen(log) THEN 3
  ELSE IF \/ seedRefused(log.player_left_seed)
          \/ seedRefused(log.player_right_seed)
          \/ hexToBytes(log.player_left_seed) = hexToBytes(log.player_right_seed)
  THEN 4
  ELSE 0

\* The reasons validateLog gives for the checks of a group.
reasonsOf(group) ==
  CASE group = 1 -> {"Invalid log format", "Invalid game_id format (must be u32)"}
    [] group = 2 -> {"No events provided - game never started",
                     "Malformed events length"}
    [] group = 3 -> {"Commitment count must match event count"}
    [] group = 4 -> {"Invalid seed length (must be 32 bytes)",
                     "Players must use unique commitment seeds",
                     "Commitment seed has insufficient entropy"}
    [] OTHER -> {}

\* C20: a log with every field given that violates some of the checks made
\* before the replay is rejected with a reason of the earliest group it
\* violates, the groups taken in the order version and game_id, events,
\* commitment count, seeds.
C20_PreflightOrder ==
  (val.pc = "done" /\ allFieldsGiven(val.log) /\ firstViolated(val.log) # 0)
    => /\ ~val.result.fair
       /\ val.result.reason.text \in reasonsOf(firstViolated(val.log))

\* The log of scenario S1: no events, no commitments, game_id 0, the left
\* seed "00" 64 times and the right seed "ff" 64 times.
isScenarioS1(log) ==
  /\ allFieldsGiven(log)
  /\ log.v = 1
  /\ log.game_id = 0
  /\ log.events = <<>>
  /\ log.commitments = <<>>
  /\ log.player_left_seed = [i \in 1..(4 * SEED_BYTES) |-> 0]
  /\ log.player_right_seed = [i \in 1..(4 * SEED_BYTES) |-> 15]

\* C21: a log whose events array is empty is rejected with the reason
\* 'No events provided - game never started'.
C21_EmptyLogRejected ==
  (val.pc = "done" /\ val.log.absent = {} /\ val.log.events = <<>>)
    => /\ ~val.result.threw
       /\ ~val.result.fair
       /\ val.result.reason.text = "No events provided - game never started"

(***************************************************************************)
(* Properties of the log runGame builds                                    *)
(***************************************************************************)
\* The log as getLog() returns it.
getLog == prod.log

\* The entry at place i (from 0) of the log carries the commitment of its
\* side: the left seed at even places, the right seed at odd ones.
committedBySide(log, i) ==
  log.commitments[i + 1] =
    computeCommitment(IF i % 2 = 0 THEN SeedA ELSE SeedB, i, log.events[i + 1])

\* C22 as stated: whenever the log is observed through getLog(),
\* events.length is even and commitments.length equals events.length.
C22_EvenWheneverObserved ==
  prod.pc # "off" =>
    /\ Len(getLog.events) % 2 = 0
    /\ Len(getLog.commitments) = Len(getLog.events)

\* C22 amended: a completed step of runGame has appended exactly one pair,
\* leftY then rightY as decimal strings, with two commitments, the even
\* place committed with the left seed and the odd place with the right
\* seed; whenever the log is observed through getLog() while no step is in
\* progress, events.length is even, and commitments.length equals
\* events.length at all times.  While a step awaits the right commitment
\* the log holds the left half of the pair only.
C22_PairPerStep ==
  [][/\ prod'.pc # "off" =>
          /\ Len(prod'.log.commitments) = Len(prod'.log.events)
          /\ prod'.pc \in {"idle", "awaitLeft"} => Len(prod'.log.events) % 2 = 0
          /\ prod'.pc = "awaitRight" => Len(prod'.log.events) % 2 = 1
     /\ (prod.pc = "awaitLeft" /\ prod'.pc = "awaitRight") =>
          /\ prod'.log.events = Append(prod.log.events, prod.ev.leftYAtHitI)
          /\ prod.ev.leftYAtHitI >= 0
          /\ committedBySide(prod'.log, Len(prod.log.events))
          /\ prod'.ev = prod.ev
     /\ (prod.pc = "awaitRight" /\ prod'.pc = "idle") =>
          /\ prod'.log.events = Append(prod.log.events, prod.ev.rightYAtHitI)
          /\ prod.ev.rightYAtHitI >= 0
          /\ committedBySide(prod'.log, Len(prod.log.events))
          /\ SubSeq(prod'.log.commitments, 1, Len(prod.log.events))
               = prod.log.commitments
     /\ (prod.pc = "idle" /\ prod'.pc # "off") =>
          prod'.log = prod.log
    ]_vars

\* Two steps have completed and no step is in progress.
C22_Witness ==
  /\ prod.pc = "idle"
  /\ Len(getLog.events) = 4
  /\ \A i \in 0..3 : committedBySide(getLog, i)

(***************************************************************************)
(* Properties of the log runP2PGame builds                                 *)
(***************************************************************************)
\* The place (from 0) in the interleaved events array of the paddle value
\* a peer of `role` logs at its n-th event.
placeOf(role, n) == IF role = "left" THEN 2 * n ELSE 2 * n + 1

\* C23: at its n-th event a peer of runP2PGame commits its paddle value with
\* the index 2n when it plays left and 2n+1 when it plays right, the place
\* the value has in the interleaved events array.
C23_GlobalIndex ==
  \A c \in Clients :
    (peer[c].started /\ peer[c].role \in Roles) =>
      /\ Len(peer[c].myCommitments) = Len(peer[c].fullEvents) \div 2
      /\ Len(peer[c].myEvents) = Len(peer[c].myCommitments)
      /\ \A n \in 0..(Len(peer[c].myCommitments) - 1) :
           /\ peer[c].myEvents[n + 1]
                = peer[c].fullEvents[placeOf(peer[c].role, n) + 1]
           /\ peer[c].myCommitments[n + 1]
                = computeCommitment(peer[c].mySeed, placeOf(peer[c].role, n),
                                    peer[c].myEvents[n + 1])

\* A peer playing right has committed three events.
C23_Witness ==
  \E c \in Clients :
    /\ peer[c].started
    /\ peer[c].role = "right"
    /\ Len(peer[c].myCommitments) = 3
    /\ peer[c].myCommitments[3]
         = computeCommitment(peer[c].mySeed, 5, peer[c].fullEvents[6])

(***************************************************************************)
(* Properties of the relaying of paddle positions                          *)
(***************************************************************************)
\* The socket that sent the message carrying the paddleY string s.
senderOf(s) == (s % 100) \div 10

\* The room has just handled a paddle_position of socket ws.
paddleHandled(ws) == peer'[ws].sent = peer[ws].sent + 1

\* C24: a paddle_position the room receives from a socket with a session is
\* sent once, as opponent_paddle with the same eventIndex and paddleY, to
\* the other socket of the session and not to the sender; nothing else sends
\* an opponent_paddle, so no socket ever holds one of its own messages.
C24_ForwardedToOpponent ==
  [][/\ \A ws \in Sockets :
          paddleHandled(ws) =>
            \A w \in Sockets :
              IF w # ws /\ w \in sessionSockets
              THEN lastForward'[w] = [type |-> "opponent_paddle",
                                      eventIndex |-> lastMsg'.eventIndex,
                                      paddleY |-> lastMsg'.paddleY]
              ELSE lastForward'[w] = lastForward[w]
     /\ (\A ws \in Sockets : ~paddleHandled(ws)) => lastForward' = lastForward
     /\ \A w \in Sockets :
          (lastForward'[w] # Null /\ lastForward'[w].paddleY >= 0)
            => senderOf(lastForward'[w].paddleY) # w
    ]_vars

\* Each of two sockets holds a paddle position of the other.
C24_Witness ==
  \E w1, w2 \in Sockets :
    /\ w1 # w2
    /\ lastForward[w1] # Null
    /\ lastForward[w2] # Null
    /\ lastForward[w1].paddleY >= 0
    /\ lastForward[w2].paddleY >= 0
    /\ senderOf(lastForward[w1].paddleY) = w2
    /\ senderOf(lastForward[w2].paddleY) = w1

(***************************************************************************)
(* Properties of the game id of a room                                     *)
(***************************************************************************)
\* Messages of the room that carry the game id, and the id they carry.
carriesGameId(msg) ==
  msg.type \in {"game_start", "opponent_connected", "game_ready", "game_end"}

gameIdIn(msg) == IF msg.type = "game_end" THEN msg.log.game_id ELSE msg.gameId

\* C25: the game ids the room has sent to the peers of a session, in
\* game_start, opponent_connected, game_ready and the final log, are all the
\* id it sent to the first of them, which is the room's gameId.
C25_SameGameId ==
  \A w \in sessionSockets :
    \A i \in DOMAIN toClient[w] :
      carriesGameId(toClient[w][i]) => gameIdIn(toClient[w][i]) = gameId

\* Two peers that asked for different ids, or none, have been sent
\* game_start, opponent_connected, game_ready and game_end.
C25_Witness ==
  /\ Len(sessions) = 2
  /\ \E i \in DOMAIN toClient[sessions[1].ws] :
       toClient[sessions[1].ws][i].type = "opponent_connected"
  /\ \A k \in {1, 2} :
       /\ \E i \in DOMAIN toClient[sessions[k].ws] :
            toClient[sessions[k].ws][i].type = "game_ready"
       /\ \E i \in DOMAIN toClient[sessions[k].ws] :
            /\ toClient[sessions[k].ws][i].type = "game_end"
            /\ toClient[sessions[k].ws][i].log.game_id = 53926

(***************************************************************************)
(* Properties of the wait for the opponent's paddle                        *)
(***************************************************************************)
\* What a peer has logged and where its match stands.
matchOf(p) ==
  [fullEvents |-> p.fullEvents, myEvents |-> p.myEvents,
   myCommitments |-> p.myCommitments, eng |-> p.eng]

C27_ResetWhenEmpty ==
  [][(Len(sessions) = 0 /\ Len(sessions') = 1) =>
       /\ ~gameStarted'
       /\ gameId' \in RoomGameIds
       /\ events' = <<>>
       /\ pendingEvent' = Null
    ]_vars

(***************************************************************************)
(* Properties of the matchmaker                                            *)
(***************************************************************************)
\* The requests a roomId was handed to.
handedTo(roomId) == {k \in DOMAIN mm.handed : mm.handed[k].roomId = roomId}

\* C28: the matchmaker holds one waiting player at most and pairs the
\* requests in arrival order: the first of a pair creates a room and waits,
\* the second is handed the same roomId and gameId and empties the queue;
\* and no roomId is handed to more than two requests.
C28_PairsInArrivalOrder ==
  mm.pc = "on" =>
    /\ \A k \in DOMAIN mm.handed : k % 2 = 0 => mm.handed[k] = mm.handed[k - 1]
    /\ mm.waitingPlayer =
         (IF Len(mm.handed) % 2 = 1 THEN mm.handed[Len(mm.handed)]
          ELSE NoWaitingPlayer)
    /\ \A k \in DOMAIN mm.handed :
         Cardinality(handedTo(mm.handed[k].roomId)) <= 2

(***************************************************************************)
(* Properties of the end of a match                                        *)
(***************************************************************************)
\* The greater of the two scores.
topScore(e) == IF e.leftScore >= e.rightScore THEN e.leftScore ELSE e.rightScore

\* C29 as stated: a match of runGame or runP2PGame is ended if and only if
\* one of the players has POINTS_TO_WIN points.
C29_EndedIffWon ==
  /\ prod.pc # "off" => (prod.eng.ended <=> topScore(prod.eng) = POINTS_TO_WIN)
  /\ peer[1].started =>
       (peer[1].eng.ended <=> topScore(peer[1].eng) = POINTS_TO_WIN)

\* C29 amended: in runGame and runP2PGame no score passes POINTS_TO_WIN, the
\* match is ended as soon as a player has POINTS_TO_WIN points, and an ended
\* match either has such a player or was stopped by step() at the event cap
\* (events.length >= MAX_EVENTS) with the score undecided; once the match
\* is ended, a step() call changes neither the engine state nor the log
\* and sends nothing.
C29_EndedWhenDecided ==
  [][/\ prod'.pc # "off" =>
          /\ topScore(prod'.eng) <= POINTS_TO_WIN
          /\ topScore(prod'.eng) = POINTS_TO_WIN => prod'.eng.ended
          /\ prod'.eng.ended =>
               \/ topScore(prod'.eng) = POINTS_TO_WIN
               \/ Len(prod'.log.events) >= MAX_EVENTS
     /\ peer'[1].started =>
          /\ topScore(peer'[1].eng) <= POINTS_TO_WIN
          /\ topScore(peer'[1].eng) = POINTS_TO_WIN => peer'[1].eng.ended
          /\ peer'[1].eng.ended =>
               \/ topScore(peer'[1].eng) = POINTS_TO_WIN
               \/ Len(peer'[1].fullEvents) >= MAX_EVENTS
     /\ (prod.pc # "off" /\ prod.eng.ended) => prod' = prod
     /\ (peer[1].started /\ peer[1].eng.ended) => (peer'[1] = peer[1] /\ chan' = chan)
    ]_vars

\* Both producers have ended a match on its third point, before the cap.
C29_Witness ==
  /\ prod.pc = "idle"
  /\ prod.eng.ended
  /\ topScore(prod.eng) = POINTS_TO_WIN
  /\ peer[1].eng.ended
  /\ topScore(peer[1].eng) = POINTS_TO_WIN

(***************************************************************************)
(* Properties of the pairs validateLog replays                             *)
(***************************************************************************)
\* Pairs the replay loop of validateLog has consumed when it returns: the
\* loop leaves eventIdx at the pair of the deciding miss.
pairsConsumed == val.eventIdx + 1

\* C30: a log validateLog accepts holds no pair after the miss that decides
\* the match: the replay has consumed every pair of it.
C30_ConsumesEveryPair ==
  (val.pc = "done" /\ val.result.fair) =>
    2 * pairsConsumed = eventsLen(val.log)

(***************************************************************************)
(* runGame's logs under validateLog                                        *)
(***************************************************************************)
\* What getLog of runGame returns, as validateLog receives it.
producedLog ==
  [v |-> prod.log.v,
   game_id |-> prod.log.game_id,
   events |-> prod.log.events,
   commitments |-> prod.log.commitments,
   player_left_seed |-> prod.log.player_left_seed,
   player_right_seed |-> prod.log.player_right_seed,
   absent |-> {}]

\* runGame's match ended because a player reached POINTS_TO_WIN.
wonOnPoints ==
  /\ prod.pc = "idle"
  /\ prod.eng.ended
  /\ matchDecided(prod.eng.leftScore, prod.eng.rightScore)

\* C31: the log runGame produced for a match that ended because a player
\* reached POINTS_TO_WIN is accepted by validateLog, which returns the
\* producer's final scores.
C31_ProducedLogAccepted ==
  (validated /\ wonOnPoints /\ val.log = producedLog) =>
    /\ ~val.result.threw
    /\ val.result.fair
    /\ val.result.leftScore = prod.eng.leftScore
    /\ val.result.rightScore = prod.eng.rightScore

\* validateLog has returned for the unchanged log of a match won on points,
\* every pair of which it replayed.
C31_Witness ==
  /\ validated
  /\ wonOnPoints
  /\ val.log = producedLog
  /\ val.result.fair
  /\ 2 * pairsConsumed = Len(prod.log.events)
  /\ val.result.leftScore = prod.eng.leftScore
  /\ val.result.rightScore = prod.eng.rightScore

(***************************************************************************)
(* Roles in the room                                                       *)
(***************************************************************************)
\* C32: the peers connected to a room never hold the same role: two
\* sessions of the room have different roles.
C32_DistinctRoles ==
  \A i, j \in DOMAIN sessions :
    i # j => sessions[i].role # sessions[j].role

\* The role the room assigned to the connection of socket ws.
assignedRole(ws) == sessions[sessionOf(ws)].role

\* C33: a paddle value a peer sends is recorded on the side of the role the
\* room assigned to the peer's connection, whatever role the message
\* carries: after the message is handled the value is that side's half of
\* the pending event, or of the pair just pushed.
C33_RecordedOnAssignedSide ==
  [][\A ws \in Sockets :
       (paddleHandled(ws) /\ lastMsg'.paddleY >= 0) =>
         IF pendingEvent' # Null
         THEN halfOf(pendingEvent', assignedRole(ws)) = lastMsg'.paddleY
         ELSE /\ Len(events') = Len(events) + 2
              /\ events'[Len(events') - (IF assignedRole(ws) = "left" THEN 1
                                          ELSE 0)] = lastMsg'.paddleY
    ]_vars

(***************************************************************************)
(* Scoring                                                                 *)
(***************************************************************************)
\* runGame's step has just logged the pair of an event and handled it.
eventHandled == prod.pc = "awaitRight" /\ prod'.pc = "idle"

\* One turn of validateLog's replay loop has just handled a pair.
pairReplayed ==
  /\ val.pc = "replay"
  /\ \/ val'.pc = "replay"
     \/ val'.pc = "done" /\ val'.state # val.state

\* The ball of fs travels toward the player who scored when the ball that
\* was missed was moving left (the right player) or right (the left one).
towardScorer(fs, movingLeft) == IF movingLeft THEN fs.vx > 0 ELSE fs.vx < 0

\* ls2, rs2 are the scores ls, rs after a miss of the side the ball was
\* moving to: the other side has one point more.
opponentScored(ls, rs, ls2, rs2, movingLeft) ==
  IF movingLeft THEN rs2 = rs + 1 /\ ls2 = ls
  ELSE ls2 = ls + 1 /\ rs2 = rs

\* C34: at every paddle-plane event, in runGame's step and in validateLog's
\* replay, a hit leaves both scores as they were and reverses the ball; a
\* miss gives the opponent of the receiving side exactly one point and
\* leaves the other score, and unless the match ends the next serve travels
\* toward the player who just scored.
C34_HitOrMiss ==
  [][/\ eventHandled =>
          LET movingLeft == prod.eng.fs.dir < 0
              paddleYI == IF movingLeft THEN prod'.log.events[Len(prod'.log.events) - 1]
                          ELSE prod'.log.events[Len(prod'.log.events)]
          IN  IF hitTest(paddleYI, prod.ev.yAtHitI)
              THEN /\ prod'.eng.leftScore = prod.eng.leftScore
                   /\ prod'.eng.rightScore = prod.eng.rightScore
                   /\ ~prod'.eng.ended
                   /\ prod'.eng.fs.dir = 0 - prod.eng.fs.dir
              ELSE /\ opponentScored(prod.eng.leftScore, prod.eng.rightScore,
                                     prod'.eng.leftScore, prod'.eng.rightScore,
                                     movingLeft)
                   /\ ~prod'.eng.ended =>
                        /\ towardScorer(prod'.eng.fs, movingLeft)
                        /\ prod'.eng.fs.speed = serveSpeedI
     /\ pairReplayed =>
          LET movingLeft == val.state.dir < 0
              paddleYI == eventValue(val.log.events[
                            2 * val.eventIdx + (IF movingLeft THEN 1 ELSE 2)])
              yAtHitI == ballYatFixed(val.state,
                                      iAdd(val.state.t0,
                                           timeToPaddleFixed(val.state)))
          IN  IF hitTest(paddleYI, yAtHitI)
              THEN /\ val'.leftScore = val.leftScore
                   /\ val'.rightScore = val.rightScore
                   /\ val'.pc = "replay"
                   /\ val'.state.dir = 0 - val.state.dir
              ELSE /\ opponentScored(val.leftScore, val.rightScore,
                                     val'.leftScore, val'.rightScore,
                                     movingLeft)
                   /\ val'.pc = "replay" =>
                        /\ towardScorer(val'.state, movingLeft)
                        /\ val'.state.speed = serveSpeedI
    ]_vars

\* Both players have scored in runGame and the match goes on.
C34_Witness ==
  /\ prod.pc = "idle"
  /\ prod.eng.leftScore > 0
  /\ prod.eng.rightScore > 0
  /\ ~prod.eng.ended
  /\ Len(prod.log.events) > 0

(***************************************************************************)
(* The speed of the ball                                                   *)
(***************************************************************************)
\* The pair runGame's step has just logged was a hit.
stepWasHit ==
  hitTest(IF prod.eng.fs.dir < 0
          THEN prod'.log.events[Len(prod'.log.events) - 1]
          ELSE prod'.log.events[Len(prod'.log.events)],
          prod.ev.yAtHitI)

\* The pair validateLog's replay has just handled was a hit.
turnWasHit ==
  hitTest(eventValue(val.log.events[2 * val.eventIdx
                                    + (IF val.state.dir < 0 THEN 1 ELSE 2)]),
          ballYatFixed(val.state,
                       iAdd(val.state.t0, timeToPaddleFixed(val.state))))

\* speed is SERVE_SPEED plus SPEED_INCREMENT for each of at most maxHits hits.
speedOfHits(speed, maxHits) ==
  \E hits \in 0..maxHits : speed = serveSpeedI + hits * speedIncrementI

\* C35: in runGame and in validateLog's replay alike, a hit reverses the
\* ball's direction and adds SPEED_INCREMENT to its speed and a serve sets
\* the speed to SERVE_SPEED, so that the speed is always SERVE_SPEED plus
\* SPEED_INCREMENT times a number of hits, no more than the events handled.
C35_SpeedOfHits ==
  /\ [](/\ prod.pc # "off" =>
             speedOfHits(prod.eng.fs.speed, Len(prod.log.events) \div 2)
        /\ val.pc = "replay" => speedOfHits(val.state.speed, val.eventIdx))
  /\ [][/\ eventHandled =>
             IF stepWasHit
             THEN /\ prod'.eng.fs.speed = prod.eng.fs.speed + speedIncrementI
                  /\ prod'.eng.fs.dir = 0 - prod.eng.fs.dir
             ELSE ~prod'.eng.ended => prod'.eng.fs.speed = serveSpeedI
        /\ (pairReplayed /\ val'.pc = "replay") =>
             IF turnWasHit
             THEN /\ val'.state.speed = val.state.speed + speedIncrementI
                  /\ val'.state.dir = 0 - val.state.dir
             ELSE val'.state.speed = serveSpeedI
       ]_vars

\* After three hits in a row in runGame, validateLog's replay of the same
\* log has the ball at the same speed.
C35_Witness ==
  /\ prod.pc = "idle"
  /\ prod.eng.fs.speed = serveSpeedI + 3 * speedIncrementI
  /\ val.pc = "replay"
  /\ val.log = producedLog
  /\ 2 * val.eventIdx = Len(prod.log.events)
  /\ val.state.speed = prod.eng.fs.speed

(***************************************************************************)
(* The ball in play                                                        *)
(***************************************************************************)
\* C36: while the ball is in play, after every serve (whatever the serve
\* index, the game id and the direction) and after every bounce (whatever
\* the impact offset), vx is not zero and has the sign of dir, the time to
\* the next paddle plane is strictly positive, and timeToPaddleFixed's
\* 'vx is zero' failure is not reached.
C36_BallInPlay ==
  /\ calc.pc # "threw"
  /\ calc.pc = "play" =>
       /\ calc.fs.vx # 0
       /\ (calc.fs.vx > 0) <=> (calc.fs.dir > 0)
       /\ timeToPaddleFixed(calc.fs) > 0

\* A ball that left the edge of a paddle after several hits, steeper than
\* 45 degrees.
C36_Witness ==
  /\ calc.pc = "play"
  /\ calc.hits >= 2
  /\ iAbs(calc.fs.vy) > iAbs(calc.fs.vx)
  /\ timeToPaddleFixed(calc.fs) > 0

(***************************************************************************)
(* The calls of step                                                       *)
(***************************************************************************)
\* The entries of the log the loop's engine keeps, and their commitments.
loopEvents ==
  IF loop.engine = "runGame" THEN loop.game.log.events
  ELSE loop.game.fullEvents

\* The entry at place i (from 0) of runGame's log was pushed at that place,
\* with the commitment for that index by the player of its side.
pushedInPlace(i) ==
  loop.game.log.commitments[i + 1] =
    computeCommitment(IF i % 2 = 0 THEN loop.game.leftSeed
                      ELSE loop.game.rightSeed,
                      i, loop.game.log.events[i + 1])

\* The k-th own entry (from 1) of the peer is its side of the k-th pair,
\* committed for that place.
ownInPlace(k) ==
  LET i == placeOf(loop.game.role, k - 1)
  IN  /\ i < Len(loop.game.fullEvents)
      /\ loop.game.myEvents[k] = loop.game.fullEvents[i + 1]
      /\ loop.game.myCommitments[k] =
           computeCommitment(loop.game.mySeed, i, loop.game.myEvents[k])

\* C37: in runGame and in runP2PGame at most one call of step is in
\* progress at any time, frames coming while it is suspended or not; the
\* entries of two events are never interleaved in the log (a lone left
\* entry belongs to the step in progress, every entry sits at the place it
\* was committed for) and each event is logged once (one own entry per
\* pair of the peer).
C37_OneStepAtATime ==
  loop.pc = "on" =>
    /\ Len(loop.steps) <= 1
    /\ loop.busy <=> Len(loop.steps) = 1
    /\ IF loop.engine = "runGame"
       THEN /\ Len(loop.game.log.events) % 2 = 1
                 <=> \E i \in DOMAIN loop.steps : loop.steps[i].at = "right"
            /\ Len(loop.game.log.commitments) = Len(loop.game.log.events)
            /\ \A i \in 0..(Len(loop.game.log.events) - 1) : pushedInPlace(i)
       ELSE /\ Len(loop.game.fullEvents) = 2 * Len(loop.game.myEvents)
            /\ Len(loop.game.myCommitments) = Len(loop.game.myEvents)
            /\ \A k \in 1..Len(loop.game.myEvents) : ownInPlace(k)

\* A step of runP2PGame is suspended at its await, after earlier events,
\* while the render loop has its next frame scheduled.
C37_Witness ==
  /\ loop.pc = "on"
  /\ loop.engine = "runP2PGame"
  /\ loop.frames > 0
  /\ loop.busy
  /\ Len(loop.steps) = 1
  /\ Len(loop.game.fullEvents) >= 4
  /\ ~loop.game.eng.ended

(***************************************************************************)
(* Waits for the opponent's paddle                                         *)
(***************************************************************************)
\* The wait for eventIndex is outstanding in p: started, neither resolved
\* nor timed out.
waitsFor(p, eventIndex) == \E w \in p.waits : w.eventIndex = eventIndex

\* C38: when the opponent_paddle message for an eventIndex arrives while
\* the wait for that index is outstanding, that wait resolves (with the
\* received paddleY), however many other waits are outstanding.
C38_WaitResolves ==
  [][\A eventIndex \in 0..(MaxWaitPairs - 1) :
       (/\ eventIndex \notin peer[1].received
        /\ eventIndex \in peer'[1].received
        /\ waitsFor(peer[1], eventIndex))
         => ~waitsFor(peer'[1], eventIndex)
    ]_vars

(***************************************************************************)
(* Readiness                                                               *)
(***************************************************************************)
\* Both peers are connected and each has called sendPlayerReady.
bothAsked == \A c \in Clients : conn[c] = "open" /\ peer[c].asked

\* player_ready has reached the room from both peers and game_ready has
\* been broadcast.
readyBroadcast ==
  /\ gameStarted
  /\ Len(sessions) = 2
  /\ \A k \in DOMAIN sessions : sessions[k].ready

\* C39: for every game id of the u32 range, 0 included, once both peers are
\* connected and each has asked to start, player_ready reaches the room
\* from both and game_ready is eventually broadcast.
C39_ReadyLeadsToGameReady == bothAsked ~> readyBroadcast

(***************************************************************************)
(* reflect1D                                                               *)
(***************************************************************************)
\* The position reached from y after travelling d (up when positive, down
\* when negative) between the walls lo and hi, turning round at each wall
\* it meets: one wall at a time.
RECURSIVE elastic(_, _, _, _)
elastic(y, d, lo, hi) ==
  IF d > 0 /\ y + d > hi THEN elastic(hi, hi - (y + d), lo, hi)
  ELSE IF d < 0 /\ y + d < lo THEN elastic(lo, lo - (y + d), lo, hi)
  ELSE y + d

reflected == calc.pc = "reflect" /\ calc.y # Undefined

startsBetweenWalls == calc.minY <= calc.y0 /\ calc.y0 <= calc.maxY

isElasticPosition ==
  /\ calc.minY <= calc.y
  /\ calc.y <= calc.maxY
  /\ calc.y = elastic(calc.y0, iMul(calc.vy, calc.dt), calc.minY, calc.maxY)

reflectsAs(y0, vy, dt, y) ==
  (/\ calc.minY = toFixed(0) /\ calc.maxY = toFixed(HEIGHT)
   /\ calc.y0 = toFixed(y0) /\ calc.vy = toFixed(vy) /\ calc.dt = toFixed(dt))
    => calc.y = toFixed(y)

\* C40 as stated: for every y0, vy, dt and walls with minY < maxY,
\* reflect1D returns a position within [minY, maxY] that is the position
\* reached from y0 at velocity vy after time dt under elastic bounces on
\* both walls.
C40_ElasticFromAnyStart == reflected => isElasticPosition

\* C40: for every y0 within [minY, maxY], every vy and dt and walls with
\* minY < maxY, reflect1D returns a position within [minY, maxY], equal to
\* the position reached from y0 at velocity vy after time dt under
\* perfectly elastic bounces on both walls, however many bounces occur; on
\* [0, 480], 100 with vy = 50 and dt = 2 gives 200, 10 with vy = -50 and
\* dt = 1 gives 40, and 470 with vy = 50 and dt = 1 gives 440.
C40_ElasticBetweenWalls ==
  (reflected /\ startsBetweenWalls) =>
    /\ isElasticPosition
    /\ reflectsAs(100, 50, 2, 200)
    /\ reflectsAs(10, 0 - 50, 1, 40)
    /\ reflectsAs(470, 50, 1, 440)

\* reflect1D has answered for a flight from between the walls that is
\* longer than the way to one wall and back, a flight of several bounces.
C40_Witness ==
  /\ reflected
  /\ startsBetweenWalls
  /\ iAbs(iMul(calc.vy, calc.dt)) > 2 * (calc.maxY - calc.minY)
  /\ calc.y # calc.minY
  /\ calc.y # calc.maxY
====
